---------------------------- MODULE Spec2Model ----------------------------
(***************************************************************************)
(* The UNO room engine of src/unoservers.py (game_room_process): one room, *)
(* its deck, hands, discard pile and turn state, driven by the messages    *)
(* the relay writes into the room's pipe.                                  *)
(*                                                                         *)
(* A card is the sequence of the words of its name ("Draw Two Red" is      *)
(* <<"Draw","Two","Red">>), so that rsplit(" ", 1) and startswith("Wild")  *)
(* are computed on the name as the code computes them.  A command is the   *)
(* list command.strip().split() of its words.  A 0-based Python index i    *)
(* is position i + 1 of a TLA+ sequence; turn_index keeps the code's       *)
(* 0-based value.                                                          *)
(***************************************************************************)
EXTENDS Integers, Sequences, FiniteSets, TLC

VARIABLES
    deck,          \* deck.cards; draw_card pops the last element
    discard,       \* discard pile, top is the last element
    players,       \* seated addresses in join order
    hands,         \* addr -> list of cards (a dict: its domain is the key set)
    turn_index,    \* 0-based index into players
    direction,     \* 1 or -1
    active_color,  \* "None" or the color chosen with the last Wild
    crashed,       \* TRUE once the room process died of an uncaught exception
    out,           \* what the room wrote to the pipe while handling msg
    msg,           \* the message handled last (pipe.recv())
    inbox,         \* messages the relay has already written to the pipe
    free           \* number of further messages the relay has sent so far

VARIABLES
    workers,         \* broker: the registry, a dict kept here in insertion order
    next_worker_id,  \* broker: number of the next worker id
    now,             \* broker: what time.time() returns
    LOCK,            \* broker: "free" or the connection whose handler holds it
    handler,         \* broker: connection -> its handle_connection thread
    accepted,        \* broker: connections accepted so far
    ticks,           \* broker: advances of the clock so far
    assigned,        \* broker: ASSIGN responses sent so far
    evictions        \* broker: workers removed as stale so far

VARIABLES
    rooms,           \* relay: room names, the keys of self.rooms in insertion order
    room_players,    \* relay: room name -> roster (self.room_players)
    pipe_in,         \* relay: room name -> messages written to the room's pipe
    pipe_out,        \* relay: room name -> messages the room engine has written
    engine,          \* relay: room name -> "none", "starting" or "running"
    emitted,         \* relay: room name -> number of messages the engine has written
    seated,          \* relay: room name -> players of the room's engine (its seat list)
    client_map,      \* relay: keys of self.client_map
    lock,            \* relay: "free" or the thread holding self.lock
    client,          \* relay: player key -> its handle_client thread
    fanout,          \* relay: the listen_for_room_messages thread
    delivered,       \* relay: player key -> room messages sent to its connection
    taken            \* relay: room name -> messages the fan-out loop has received

room_vars == <<deck, discard, players, hands, turn_index, direction, active_color,
               crashed, out, msg, inbox, free>>

broker_vars == <<workers, next_worker_id, now, LOCK, handler, accepted, ticks,
                 assigned, evictions>>

relay_vars == <<rooms, room_players, pipe_in, pipe_out, engine, emitted, seated,
                client_map, lock, client, fanout, delivered, taken>>

vars == <<room_vars, broker_vars, relay_vars>>

\* player keys (f"{addr[0]}:{addr[1]}"): Idle players are connected and send
\* nothing
Active == {"a", "b"}

Idle == {"x1", "x2", "x3"}

Keys == Active \cup Idle

RoomNames == {"room1", "room2", "room3", "t1"}

\* a connection not accepted yet
NoClient == [pc |-> "none", asked |-> "", room_name |-> ""]

FanoutIdle == [pc |-> "poll", msg |-> <<>>, todo |-> <<>>]

\* no relay runs beside the room or the broker
RelayOff ==
    /\ rooms = <<>>
    /\ room_players = [rn \in RoomNames |-> <<>>]
    /\ pipe_in = [rn \in RoomNames |-> <<>>]
    /\ pipe_out = [rn \in RoomNames |-> <<>>]
    /\ engine = [rn \in RoomNames |-> "none"]
    /\ emitted = [rn \in RoomNames |-> 0]
    /\ seated = [rn \in RoomNames |-> <<>>]
    /\ client_map = {}
    /\ lock = "free"
    /\ client = [p \in Keys |-> NoClient]
    /\ fanout = FanoutIdle
    /\ delivered = [p \in Keys |-> <<>>]
    /\ taken = [rn \in RoomNames |-> <<>>]

Conns == {"c1", "c2"}

\* a connection nobody has accepted (or that was closed again)
Closed ==
    [pc |-> "closed", req |-> <<>>, chosen |-> "None", load |-> 0, dest |-> <<>>,
     reply |-> <<>>]

\* no broker runs beside the room
BrokerOff ==
    /\ workers = <<>>
    /\ next_worker_id = 1
    /\ now = 0
    /\ LOCK = "free"
    /\ handler = [c \in Conns |-> Closed]
    /\ accepted = 0
    /\ ticks = 0
    /\ assigned = 0
    /\ evictions = 0

-----------------------------------------------------------------------------
(* Bounds of the model *)

\* further (arbitrary) messages the relay sends once the queued ones are handled
MaxFree == 1

\* the connections (addr_key values) that talk to this room
Addrs == {"p1", "p2", "p3"}

-----------------------------------------------------------------------------
(* Small helpers *)

Min(a, b) == IF a <= b THEN a ELSE b

Max(a, b) == IF a >= b THEN a ELSE b

\* Python's None where a card is expected (draw_card on an empty deck, no top card)
NoCard == <<>>

\* list.index for an element that occurs in the list (1-based position)
IndexOf(seq, x) == CHOOSE i \in 1..Len(seq) : seq[i] = x /\ \A j \in 1..(i - 1) : seq[j] # x

\* list.pop(i) / list.remove: the list without position i (1-based)
RemoveAt(seq, i) == SubSeq(seq, 1, i - 1) \o SubSeq(seq, i + 1, Len(seq))

InSeq(seq, x) == \E i \in 1..Len(seq) : seq[i] = x


-----------------------------------------------------------------------------
(* Deck *)

suits == <<"Red", "Yellow", "Green", "Blue">>

values == << <<"0">>, <<"1">>, <<"2">>, <<"3">>, <<"4">>, <<"5">>, <<"6">>, <<"7">>,
             <<"8">>, <<"9">>, <<"Skip">>, <<"Reverse">>, <<"Draw", "Two">> >>

Wild == <<"Wild">>

WildDrawFour == <<"Wild", "Draw", "Four">>

\* Deck.__init__ before the shuffle: every value of every suit, suit by suit,
\* then ['Wild', 'Wild Draw Four'] * 4
NewCards ==
    [k \in 1..(Len(suits) * Len(values)) |->
        values[((k - 1) % Len(values)) + 1] \o <<suits[((k - 1) \div Len(values)) + 1]>>]
    \o [k \in 1..8 |-> IF k % 2 = 1 THEN Wild ELSE WildDrawFour]

\* random.shuffle: some permutation of the list.  The model draws it from the
\* permutations i -> (a * i + b) mod n named in Shuffles (a coprime to n).
Shuffles == { <<1, 59>>, <<13, 0>>, <<11, 38>>, <<19, 28>> }

shuffle_deck(cards, sh) ==
    [i \in 1..Len(cards) |-> cards[((sh[1] * (i - 1) + sh[2]) % Len(cards)) + 1]]

\* Deck.draw_card: the card returned (None when the deck is empty) ...
draw_card(cards) == IF cards = <<>> THEN NoCard ELSE cards[Len(cards)]

\* a draw that leaves the card in the deck
after_draw_keeps_card(cards) == cards

\* ... and the deck it leaves
after_draw(cards) == IF cards = <<>> THEN cards ELSE SubSeq(cards, 1, Len(cards) - 1)

\* "for _ in range(n): c = deck.draw_card(); if c: got.append(c)":
\* <<the cards appended, the deck left>>
RECURSIVE draw_loop(_, _, _)
draw_loop(cards, n, got) ==
    IF n = 0 THEN <<got, cards>>
    ELSE LET c == draw_card(cards) IN
         IF c # NoCard THEN draw_loop(after_draw(cards), n - 1, Append(got, c))
         ELSE draw_loop(after_draw(cards), n - 1, got)

-----------------------------------------------------------------------------
(* Text of the messages the room writes.  A text is a tuple: its tag, then    *)
(* the values formatted into it.                                              *)

Send(addr, text) == [type |-> "send", addr |-> addr, text |-> text]

Broadcast(text) == [type |-> "broadcast", addr |-> "*", text |-> text]

\* "discard[-1] if discard else None"
TopOf(pile) == IF pile = <<>> THEN NoCard ELSE pile[Len(pile)]

-----------------------------------------------------------------------------
(* The room's nested functions.  r is the room: a record of the process's     *)
(* locals plus out, the messages written so far while handling one message.   *)

emit(r, m) == [r EXCEPT !.out = Append(@, m)]

HandSize == 7

deal_initial_cards(r, addr) ==
    LET d == draw_loop(r.deck, HandSize, <<>>) IN
    [r EXCEPT !.deck = d[2],
              !.hands = [a \in (DOMAIN r.hands) \cup {addr} |->
                            IF a = addr THEN d[1] ELSE r.hands[a]]]

send_turn_notification(r) ==
    IF r.players = <<>> THEN r
    ELSE LET cur == r.players[r.turn_index + 1] IN
         emit(emit(r, Broadcast(<<"turn", cur, TopOf(r.discard)>>)),
              Send(cur, <<"YOUR_TURN">>))

start_match_if_ready(r) ==
    IF Len(r.players) >= 2 /\ r.discard = <<>>
    THEN LET top == draw_card(r.deck)
             r1 == IF top = NoCard THEN r
                   ELSE [r EXCEPT !.deck = after_draw(r.deck),
                                  !.discard = Append(@, top)]
         IN  IF r1.discard = <<>>
             THEN \* discard[-1] raises IndexError: the process dies here
                  [r1 EXCEPT !.crashed = TRUE]
             ELSE send_turn_notification(
                      emit(r1, Broadcast(<<"match_started", TopOf(r1.discard)>>)))
    ELSE r

\* advance_turn moving one seat whatever steps is
advance_turn_one_seat(r, steps) ==
    IF r.players = <<>> THEN r
    ELSE send_turn_notification(
             [r EXCEPT !.turn_index = (r.turn_index + r.direction) % Len(r.players)])

advance_turn(r, steps) ==
    IF r.players = <<>> THEN r
    ELSE send_turn_notification(
             [r EXCEPT !.turn_index = (r.turn_index + r.direction * steps) % Len(r.players)])

\* remove_player without the adjustment of turn_index
remove_player_keep_turn(r, addr) ==
    IF InSeq(r.players, addr)
    THEN [r EXCEPT !.players = RemoveAt(@, IndexOf(r.players, addr)),
                   !.hands = [a \in (DOMAIN r.hands) \ {addr} |-> r.hands[a]]]
    ELSE r

\* remove_player moving the pointer down whatever seat is removed
remove_player_always_back(r, addr) ==
    IF InSeq(r.players, addr)
    THEN [r EXCEPT !.players = RemoveAt(@, IndexOf(r.players, addr)),
                   !.hands = [a \in (DOMAIN r.hands) \ {addr} |-> r.hands[a]],
                   !.turn_index = Max(0, r.turn_index - 1)]
    ELSE r

\* remove_player moving the pointer down whenever the seat removed was at or
\* before it
remove_player_at_or_before(r, addr) ==
    IF InSeq(r.players, addr)
    THEN LET idx == IndexOf(r.players, addr) - 1
             left == RemoveAt(r.players, idx + 1)
         IN  [r EXCEPT !.players = left,
                       !.hands = [a \in (DOMAIN r.hands) \ {addr} |-> r.hands[a]],
                       !.turn_index = IF idx <= r.turn_index
                                      THEN Max(0, r.turn_index - 1)
                                      ELSE r.turn_index]
    ELSE r

remove_player(r, addr) ==
    IF InSeq(r.players, addr)
    THEN LET idx == IndexOf(r.players, addr) - 1
             left == RemoveAt(r.players, idx + 1)
         IN  [r EXCEPT !.players = left,
                       !.hands = [a \in (DOMAIN r.hands) \ {addr} |-> r.hands[a]],
                       !.turn_index = IF idx < r.turn_index \/ r.turn_index >= Len(left)
                                      THEN Max(0, r.turn_index - 1)
                                      ELSE r.turn_index]
    ELSE r

\* str.startswith("Wild") on a card name
StartsWithWild(card) == Len(card) >= 1 /\ card[1] = "Wild"

\* name.rsplit(" ", 1) unpacked into two names: possible when the name has a space
CanSplit(card) == Len(card) >= 2

SplitVal(card) == SubSeq(card, 1, Len(card) - 1)

SplitCol(card) == card[Len(card)]

\* card_matches comparing colours only on a normal top card
card_matches_color_only(card, top_card, current_color) ==
    IF top_card = NoCard THEN TRUE
    ELSE IF StartsWithWild(card) THEN TRUE
    ELSE IF ~CanSplit(card) THEN FALSE
    ELSE IF ~CanSplit(top_card)
         THEN IF current_color # "None" THEN SplitCol(card) = current_color ELSE TRUE
    ELSE IF StartsWithWild(top_card)
         THEN IF current_color # "None"
              THEN SplitCol(card) = current_color \/ SplitVal(card) = SplitVal(top_card)
              ELSE TRUE
    ELSE SplitCol(card) = SplitCol(top_card)

\* card_matches taking any card on a Wild Draw Four, whatever the colour chosen
card_matches_any_on_draw_four(card, top_card, current_color) ==
    IF top_card = NoCard THEN TRUE
    ELSE IF StartsWithWild(card) THEN TRUE
    ELSE IF ~CanSplit(card) THEN FALSE
    ELSE IF ~CanSplit(top_card)
         THEN IF current_color # "None" THEN SplitCol(card) = current_color ELSE TRUE
    ELSE IF StartsWithWild(top_card) THEN TRUE
    ELSE SplitCol(card) = SplitCol(top_card) \/ SplitVal(card) = SplitVal(top_card)

card_matches(card, top_card, current_color) ==
    IF top_card = NoCard THEN TRUE
    ELSE IF StartsWithWild(card) THEN TRUE
    ELSE IF ~CanSplit(card) THEN FALSE
    ELSE IF ~CanSplit(top_card)
         THEN IF current_color # "None" THEN SplitCol(card) = current_color ELSE TRUE
    ELSE IF StartsWithWild(top_card)
         THEN IF current_color # "None"
              THEN SplitCol(card) = current_color \/ SplitVal(card) = SplitVal(top_card)
              ELSE TRUE
    ELSE SplitCol(card) = SplitCol(top_card) \/ SplitVal(card) = SplitVal(top_card)

-----------------------------------------------------------------------------
(* Words of a command line, and what str.lower, str.capitalize and int make   *)
(* of them                                                                    *)

VerbWords == {"hand", "myhand", "top", "look", "topcard", "exit", "draw", "play",
              "pass", "Draw", "PLAY"}

IndexWords == {"0", "1", "2", "3", "4", "5", "6", "7", "8", "x"}

ColorWords == {"blue", "GREEN", "purple"}

\* parts[0].lower()
lower(w) ==
    CASE w = "Draw" -> "draw"
      [] w = "PLAY" -> "play"
      [] OTHER -> w

\* parts[2].capitalize()
capitalize(w) ==
    CASE w = "blue" -> "Blue"
      [] w = "GREEN" -> "Green"
      [] w = "purple" -> "Purple"
      [] OTHER -> w

Digits == <<"0", "1", "2", "3", "4", "5", "6", "7", "8", "9">>

\* int(w) succeeds (the model's numerals are single digits) ...
IsInt(w) == \E d \in 1..Len(Digits) : Digits[d] = w

\* ... with this value
int(w) == (CHOOSE d \in 1..Len(Digits) : Digits[d] = w) - 1

Colors == {"Red", "Green", "Blue", "Yellow"}

Error(addr, reason) == Send(addr, <<"ERROR", reason>>)

-----------------------------------------------------------------------------
(* The message loop of game_room_process, one message at a time               *)

\* msg[0] == "new_client"
on_new_client(r, addr) ==
    IF ~InSeq(r.players, addr)
    THEN LET r1 == deal_initial_cards([r EXCEPT !.players = Append(@, addr)], addr)
             r2 == emit(r1, Broadcast(<<"joined", addr>>))
             r3 == emit(r2, Send(addr, <<"HAND", r2.hands[addr]>>))
             r4 == emit(r3, Send(addr, <<"INFO", "dealt">>))
         IN  start_match_if_ready(r4)
    ELSE r

\* the forced draw taken by the player on turn instead of the next one
penalty_draw_on_caller(r, n) ==
    IF r.players # <<>>
    THEN LET next_player == r.players[r.turn_index + 1]
             d == draw_loop(r.deck, n, <<>>)
             r1 == [r EXCEPT !.deck = d[2], !.hands[next_player] = @ \o d[1]]
         IN  emit(emit(r1, Send(next_player, <<"DRAWN", d[1]>>)),
                  Broadcast(<<"penalty", next_player, n>>))
    ELSE r

\* the forced draw of Wild Draw Four (n = 4) and Draw Two (n = 2)
penalty_draw(r, n) ==
    IF r.players # <<>>
    THEN LET next_idx == (r.turn_index + r.direction) % Len(r.players)
             next_player == r.players[next_idx + 1]
             d == draw_loop(r.deck, n, <<>>)
             r1 == [r EXCEPT !.deck = d[2], !.hands[next_player] = @ \o d[1]]
         IN  emit(emit(r1, Send(next_player, <<"DRAWN", d[1]>>)),
                  Broadcast(<<"penalty", next_player, n>>))
    ELSE r

\* play_card without the reset of active_color before the card's effect
play_card_keep_color(r, addr, parts, idx) ==
    LET played == r.hands[addr][idx + 1]
        r1 == emit([r EXCEPT !.hands[addr] = RemoveAt(@, idx + 1),
                             !.discard = Append(@, played)],
                   Broadcast(<<"played", addr, played>>))
    IN  IF StartsWithWild(played)
        THEN IF Len(parts) >= 3 /\ capitalize(parts[3]) \notin Colors
             THEN emit(r1, Error(addr, "invalid color choice"))
             ELSE LET chosen_color == IF Len(parts) >= 3 THEN capitalize(parts[3]) ELSE "Red"
                      r2 == emit([r1 EXCEPT !.active_color = chosen_color],
                                 Broadcast(<<"chose_color", addr, chosen_color>>))
                  IN  IF played = WildDrawFour
                      THEN LET r3 == advance_turn(r2, 0) IN
                           IF r3.players # <<>>
                           THEN advance_turn(penalty_draw(r3, 4), 2)
                           ELSE advance_turn(r3, 1)
                      ELSE advance_turn(r2, 1)
        ELSE LET val == SplitVal(played) IN
             IF val = <<"Skip">> THEN advance_turn(r1, 2)
             ELSE IF val = <<"Reverse">>
                  THEN IF Len(r1.players) = 2
                       THEN advance_turn(r1, 2)
                       ELSE advance_turn([r1 EXCEPT !.direction = -1 * @], 1)
             ELSE IF val = <<"Draw", "Two">> THEN advance_turn(penalty_draw(r1, 2), 2)
             ELSE advance_turn(r1, 1)

\* play_card where a Reverse among more than 2 players moves the turn in the
\* old direction before it flips the direction
play_card_reverse_late(r, addr, parts, idx) ==
    LET played == r.hands[addr][idx + 1]
        r1 == emit([r EXCEPT !.hands[addr] = RemoveAt(@, idx + 1),
                             !.discard = Append(@, played),
                             !.active_color = "None"],
                   Broadcast(<<"played", addr, played>>))
    IN  IF StartsWithWild(played)
        THEN IF Len(parts) >= 3 /\ capitalize(parts[3]) \notin Colors
             THEN emit(r1, Error(addr, "invalid color choice"))
             ELSE LET chosen_color == IF Len(parts) >= 3 THEN capitalize(parts[3]) ELSE "Red"
                      r2 == emit([r1 EXCEPT !.active_color = chosen_color],
                                 Broadcast(<<"chose_color", addr, chosen_color>>))
                  IN  IF played = WildDrawFour
                      THEN LET r3 == advance_turn(r2, 0) IN
                           IF r3.players # <<>>
                           THEN advance_turn(penalty_draw(r3, 4), 2)
                           ELSE advance_turn(r3, 1)
                      ELSE advance_turn(r2, 1)
        ELSE LET val == SplitVal(played) IN
             IF val = <<"Skip">> THEN advance_turn(r1, 2)
             ELSE IF val = <<"Reverse">>
                  THEN IF Len(r1.players) = 2
                       THEN advance_turn(r1, 2)
                       ELSE [advance_turn(r1, 1) EXCEPT !.direction = -1 * @]
             ELSE IF val = <<"Draw", "Two">> THEN advance_turn(penalty_draw(r1, 2), 2)
             ELSE advance_turn(r1, 1)

\* lines 217-301: the card at idx (0-based) matched and is played
play_card(r, addr, parts, idx) ==
    LET played == r.hands[addr][idx + 1]
        r1 == emit([r EXCEPT !.hands[addr] = RemoveAt(@, idx + 1),
                             !.discard = Append(@, played),
                             !.active_color = "None"],
                   Broadcast(<<"played", addr, played>>))
    IN  IF StartsWithWild(played)
        THEN IF Len(parts) >= 3 /\ capitalize(parts[3]) \notin Colors
             THEN emit(r1, Error(addr, "invalid color choice"))
             ELSE LET chosen_color == IF Len(parts) >= 3 THEN capitalize(parts[3]) ELSE "Red"
                      r2 == emit([r1 EXCEPT !.active_color = chosen_color],
                                 Broadcast(<<"chose_color", addr, chosen_color>>))
                  IN  IF played = WildDrawFour
                      THEN LET r3 == advance_turn(r2, 0) IN
                           IF r3.players # <<>>
                           THEN advance_turn(penalty_draw(r3, 4), 2)
                           ELSE advance_turn(r3, 1)
                      ELSE advance_turn(r2, 1)
        ELSE LET val == SplitVal(played) IN
             IF val = <<"Skip">> THEN advance_turn(r1, 2)
             ELSE IF val = <<"Reverse">>
                  THEN IF Len(r1.players) = 2
                       THEN advance_turn(r1, 2)
                       ELSE advance_turn([r1 EXCEPT !.direction = -1 * @], 1)
             ELSE IF val = <<"Draw", "Two">> THEN advance_turn(penalty_draw(r1, 2), 2)
             ELSE advance_turn(r1, 1)

\* on_play without the card_matches check
on_play_unchecked(r, addr, parts) ==
    IF Len(parts) < 2 THEN emit(r, Error(addr, "usage"))
    ELSE IF ~IsInt(parts[2]) THEN emit(r, Error(addr, "index must be a number"))
    ELSE LET idx == int(parts[2]) - 1 IN
         IF idx < 0 \/ idx >= Len(r.hands[addr])
         THEN emit(r, Error(addr, "invalid card index"))
         ELSE play_card(r, addr, parts, idx)

\* verb == "play"
on_play(r, addr, parts) ==
    IF Len(parts) < 2 THEN emit(r, Error(addr, "usage"))
    ELSE IF ~IsInt(parts[2]) THEN emit(r, Error(addr, "index must be a number"))
    ELSE LET idx == int(parts[2]) - 1 IN
         IF idx < 0 \/ idx >= Len(r.hands[addr])
         THEN emit(r, Error(addr, "invalid card index"))
         ELSE IF ~card_matches(r.hands[addr][idx + 1], TopOf(r.discard), r.active_color)
              THEN emit(r, Error(addr, "cannot play"))
              ELSE play_card(r, addr, parts, idx)

\* on_draw keeping the turn when the deck is empty
on_draw_stuck_when_empty(r, addr) ==
    LET c == draw_card(r.deck) IN
    IF c # NoCard
    THEN advance_turn(emit(emit([r EXCEPT !.deck = after_draw(@),
                                          !.hands[addr] = Append(@, c)],
                                 Send(addr, <<"DRAWN", <<c>> >>)),
                            Broadcast(<<"drew", addr>>)), 1)
    ELSE emit(r, Error(addr, "No cards left to draw"))

\* verb == "draw"
on_draw(r, addr) ==
    LET c == draw_card(r.deck)
        r1 == IF c # NoCard
              THEN emit(emit([r EXCEPT !.deck = after_draw(@),
                                       !.hands[addr] = Append(@, c)],
                              Send(addr, <<"DRAWN", <<c>> >>)),
                        Broadcast(<<"drew", addr>>))
              ELSE emit(r, Error(addr, "No cards left to draw"))
    IN  advance_turn(r1, 1)

\* verb in ("hand", "myhand")
on_hand(r, addr) == emit(r, Send(addr, <<"HAND", r.hands[addr]>>))

\* the top query taking the card off the pile (discard.pop() for discard[-1])
on_top_pop(r, addr) ==
    emit([r EXCEPT !.discard = IF @ = <<>> THEN @ ELSE SubSeq(@, 1, Len(@) - 1)],
         Send(addr, <<"TOP", TopOf(r.discard)>>))

\* verb in ("look", "top", "topcard")
on_top(r, addr) == emit(r, Send(addr, <<"TOP", TopOf(r.discard)>>))

\* verb == "exit"
on_exit(r, addr) == emit(remove_player(r, addr), Broadcast(<<"left", addr>>))

\* the turn check never refusing
not_your_turn_never(r, addr) == FALSE

\* "enforce turn": players and players[turn_index] != addr
not_your_turn(r, addr) == r.players # <<>> /\ r.players[r.turn_index + 1] # addr

\* msg[0] == "command"; parts is command.strip().split(), which the relay never
\* sends empty (it drops empty lines)
on_command(r, addr, parts) ==
    IF ~InSeq(r.players, addr) THEN emit(r, Error(addr, "not in this room"))
    ELSE IF addr \notin DOMAIN r.hands THEN emit(r, Error(addr, "No hand found"))
    ELSE LET verb == lower(parts[1]) IN
         IF verb \in {"hand", "myhand"} THEN on_hand(r, addr)
         ELSE IF verb \in {"look", "top", "topcard"} THEN on_top(r, addr)
         ELSE IF verb = "exit" THEN on_exit(r, addr)
         ELSE IF not_your_turn(r, addr) THEN emit(r, Error(addr, "Not your turn"))
         ELSE IF verb = "play" THEN on_play(r, addr, parts)
         ELSE IF verb = "draw" THEN on_draw(r, addr)
         ELSE emit(r, Error(addr, "Unknown command"))

-----------------------------------------------------------------------------
(* The state machine *)

NewClientMsg(addr) == [type |-> "new_client", addr |-> addr, parts |-> <<>>]

CommandMsg(addr, parts) == [type |-> "command", addr |-> addr, parts |-> parts]

\* the command lines a connection may send
Commands ==
    { <<v>> : v \in VerbWords }
    \cup { <<"play", i>> : i \in IndexWords }
    \cup { <<"play", i, c>> : i \in IndexWords \ {"x"}, c \in ColorWords }

\* shorthands for the messages of the scripted runs
J(addr) == NewClientMsg(addr)

X(addr) == CommandMsg(addr, <<"exit">>)

D(addr) == CommandMsg(addr, <<"draw">>)

P(addr, i) == CommandMsg(addr, <<"play", i>>)

RECURSIVE Times(_, _)
Times(s, k) == IF k = 0 THEN <<>> ELSE s \o Times(s, k - 1)

\* two players seated, then player 2 leaves and rejoins six times: 3 cards are left
LowDeck == <<J("p1"), J("p2")>> \o Times(<<X("p2"), J("p2")>>, 6)

\* message sequences already in the pipe when the room process starts reading:
\* the model explores each of them, followed by any MaxFree further messages
Scripts ==
    { <<>>,
      <<J("p1")>>,
      <<J("p1"), J("p2")>>,
      <<J("p1"), J("p2"), J("p3")>>,
      <<J("p1"), J("p2"), J("p3"), D("p1")>>,
      <<J("p1"), J("p2"), J("p3"), D("p1"), D("p2")>>,
      <<J("p1"), J("p2"), CommandMsg("p1", <<"play", "1", "blue">>)>>,
      <<J("p1"), J("p2"), P("p1", "6")>>,
      <<J("p1"), J("p2"), J("p3"), P("p1", "1"), P("p2", "3")>>,
      <<J("p1"), J("p2"), J("p3"), CommandMsg("p1", <<"play", "1", "blue">>),
        P("p2", "2"), CommandMsg("p1", <<"play", "1", "blue">>), D("p3")>>,
      <<J("p1"), X("p1"), J("p1")>>,
      <<J("p1"), J("p2"), J("p3"), P("p1", "2"), P("p3", "1")>>,
      LowDeck,
      LowDeck \o <<D("p1")>>,
      LowDeck \o <<D("p1"), D("p2")>>,
      LowDeck \o <<D("p1"), D("p2"), D("p1")>>,
      LowDeck \o <<D("p1"), D("p2"), X("p2"), J("p2"), D("p1")>>,
      <<J("p1")>> \o Times(<<X("p1"), J("p1")>>, 8) \o <<J("p2")>> }

\* the room's locals as a record, with nothing written yet for this message
Room ==
    [deck |-> deck, discard |-> discard, players |-> players, hands |-> hands,
     turn_index |-> turn_index, direction |-> direction,
     active_color |-> active_color, crashed |-> crashed, out |-> <<>>]

Install(r) ==
    /\ deck' = r.deck
    /\ discard' = r.discard
    /\ players' = r.players
    /\ hands' = r.hands
    /\ turn_index' = r.turn_index
    /\ direction' = r.direction
    /\ active_color' = r.active_color
    /\ crashed' = r.crashed
    /\ out' = r.out

\* pipe.recv(): the next queued message, or, once the queue is empty, any
\* further message the relay sends (at most MaxFree of them)
Recv(m) ==
    /\ ~crashed
    /\ IF inbox # <<>>
       THEN m = Head(inbox) /\ inbox' = Tail(inbox) /\ free' = free
       ELSE free < MaxFree /\ inbox' = inbox /\ free' = free + 1
    /\ msg' = m

Init ==
    /\ \E sh \in Shuffles : deck = shuffle_deck(NewCards, sh)
    /\ discard = <<>>
    /\ players = <<>>
    /\ hands = <<>>
    /\ turn_index = 0
    /\ direction = 1
    /\ active_color = "None"
    /\ crashed = FALSE
    /\ out = <<>>
    /\ msg = [type |-> "none", addr |-> "none", parts |-> <<>>]
    /\ inbox \in Scripts
    /\ free = 0
    /\ BrokerOff
    /\ RelayOff

new_client(addr) ==
    /\ Recv(NewClientMsg(addr))
    /\ Install(on_new_client(Room, addr))
    /\ UNCHANGED <<broker_vars, relay_vars>>

command(addr, parts) ==
    /\ Recv(CommandMsg(addr, parts))
    /\ Install(on_command(Room, addr, parts))
    /\ UNCHANGED <<broker_vars, relay_vars>>

Next ==
    \/ \E addr \in Addrs : new_client(addr)
    \/ \E addr \in Addrs, parts \in Commands : command(addr, parts)

Spec == Init /\ [][Next]_vars

-----------------------------------------------------------------------------
(* What a step is about.  In a step, msg' is the message handled, out' what   *)
(* the room wrote while handling it, and the unprimed variables are the room  *)
(* the message found.                                                         *)

IsCommand == msg'.type = "command"

Caller == msg'.addr

Verb == lower(msg'.parts[1])

Seated(addr) == InSeq(players, addr)

OnTurn(addr) == players # <<>> /\ players[turn_index + 1] = addr

RoomUnchanged ==
    UNCHANGED <<deck, discard, players, hands, turn_index, direction, active_color>>

IsErrorTo(m, addr) == m.type = "send" /\ m.addr = addr /\ m.text[1] = "ERROR"

OnlyErrorTo(addr) == Len(out') = 1 /\ IsErrorTo(out'[1], addr)

\* the 1-based hand position a play command names, when it names one in range
PlayIndexValid ==
    /\ Len(msg'.parts) >= 2
    /\ IsInt(msg'.parts[2])
    /\ int(msg'.parts[2]) \in 1..Len(hands[Caller])

PlaySelected == hands[Caller][int(msg'.parts[2])]

-----------------------------------------------------------------------------
(* C1 *)

\* C1: in every reachable state of a room, whenever the seat list is
\* non-empty the turn pointer satisfies 0 <= turn_index < len(players).
C1_TurnIndexValid ==
    players # <<>> => (0 <= turn_index /\ turn_index < Len(players))

\* the player in the last seat, who was on turn, has just left a three-player room
C1_Witness ==
    /\ msg.type = "command" /\ msg.parts = <<"exit">>
    /\ ~InSeq(players, msg.addr)
    /\ Len(players) = 2 /\ turn_index = 1
    /\ Len(out) = 1 /\ out[1].text[1] = "left"

-----------------------------------------------------------------------------
(* C2 *)

\* C2: once at least 2 players have joined a room (here: are seated, the case
\* in which the match starts), the discard pile is non-empty, immediately
\* after the second join and in every later state.
C2_DiscardNonEmpty == Len(players) >= 2 => discard # <<>>

-----------------------------------------------------------------------------
(* C3 *)

\* C3: a play command by the player on turn with a valid index whose card
\* does not match (card_matches false) changes no hand, nor the discard pile,
\* deck, turn_index, direction or active_color, and the only output is one
\* ERROR message to the caller.
C3_MismatchRejected ==
    [][ ( /\ IsCommand /\ Seated(Caller) /\ OnTurn(Caller) /\ Verb = "play"
          /\ PlayIndexValid
          /\ ~card_matches(PlaySelected, TopOf(discard), active_color) )
        => (RoomUnchanged /\ OnlyErrorTo(Caller)) ]_vars

\* a play was refused because the card does not match
C3_Witness ==
    /\ msg.type = "command" /\ Len(msg.parts) >= 2 /\ lower(msg.parts[1]) = "play"
    /\ Len(out) = 1 /\ out[1].text[1] = "ERROR" /\ out[1].text[2] = "cannot play"
    /\ discard # <<>>

-----------------------------------------------------------------------------
(* C4 *)

\* C4 as stated: a command whose verb is none of hand/myhand, top/look, exit,
\* from a seated player who is not on turn, gets a not-your-turn ERROR to
\* that sender only and changes nothing in the room.
C4_Original ==
    [][ ( /\ IsCommand /\ Seated(Caller) /\ ~OnTurn(Caller)
          /\ Verb \notin {"hand", "myhand", "top", "look", "exit"} )
        => ( /\ RoomUnchanged /\ OnlyErrorTo(Caller)
             /\ out'[1].text[2] = "Not your turn" ) ]_vars

\* C4 amended: the same, for a verb that is none of hand/myhand,
\* top/look/topcard, exit ("topcard" is a third spelling of the top query).
C4_TurnEnforced ==
    [][ ( /\ IsCommand /\ Seated(Caller) /\ ~OnTurn(Caller)
          /\ Verb \notin {"hand", "myhand", "top", "look", "topcard", "exit"} )
        => ( /\ RoomUnchanged /\ OnlyErrorTo(Caller)
             /\ out'[1].text[2] = "Not your turn" ) ]_vars

\* a seated player who is not on turn tried to draw and was refused
C4_Witness ==
    /\ msg.type = "command" /\ lower(msg.parts[1]) = "draw"
    /\ InSeq(players, msg.addr) /\ players[turn_index + 1] # msg.addr
    /\ Len(out) = 1 /\ out[1].text[1] = "ERROR" /\ out[1].text[2] = "Not your turn"

-----------------------------------------------------------------------------
(* C5 *)

BadArgumentReasons ==
    {"usage", "index must be a number", "invalid card index", "invalid color choice"}

\* C5: a play command answered with an ERROR for bad arguments (missing,
\* non-numeric or out-of-range index, or a color for a Wild that is not one
\* of the four) leaves the whole room unchanged and writes only to the caller.
C5_BadArgumentsChangeNothing ==
    [][ ( /\ IsCommand /\ Verb = "play"
          /\ \E k \in 1..Len(out') :
                /\ IsErrorTo(out'[k], Caller)
                /\ out'[k].text[2] \in BadArgumentReasons )
        => ( /\ RoomUnchanged
             /\ \A k \in 1..Len(out') : out'[k].type = "send" /\ out'[k].addr = Caller )
      ]_vars

-----------------------------------------------------------------------------
(* Successful plays *)

\* the last message written is an ERROR
EndsWithError == out' # <<>> /\ out'[Len(out')].text[1] = "ERROR"

\* the step is a play command whose card was accepted: it went from the
\* caller's hand to the discard pile and the command was not answered with
\* an ERROR
SuccessfulPlay ==
    /\ IsCommand /\ Verb = "play" /\ Seated(Caller) /\ OnTurn(Caller)
    /\ Len(discard') = Len(discard) + 1
    /\ ~EndsWithError

Played == TopOf(discard')

\* seat i of the claims is turn_index before the step, n is len(players)
SeatAfter(steps) == (turn_index + steps * direction) % Len(players)

-----------------------------------------------------------------------------
(* C6 *)

WinAnnounced ==
    \E k \in 1..Len(out') :
        /\ out'[k].type = "broadcast"
        /\ out'[k].text[1] = "win"
        /\ out'[k].text[2] = Caller

\* the message handled last was a play that emptied the caller's hand
JustWon ==
    /\ msg.type = "command" /\ lower(msg.parts[1]) = "play"
    /\ msg.addr \in DOMAIN hands /\ hands[msg.addr] = <<>>
    /\ out # <<>> /\ out[1].text[1] = "played"

\* C6: a successful play that leaves the caller's hand empty is announced to
\* the room as a win naming the caller, and from then on play and draw
\* commands are rejected and turn_index does not change.
C6_WinIsTerminal ==
    [][ /\ (SuccessfulPlay /\ hands'[Caller] = <<>>) => WinAnnounced
        /\ (JustWon /\ IsCommand /\ Verb \in {"play", "draw"})
              => (turn_index' = turn_index /\ OnlyErrorTo(Caller)) ]_vars

-----------------------------------------------------------------------------
(* C7 *)

\* C7: a successful Skip play by the player at seat i with n seated players
\* sets turn_index to (i + 2*direction) mod n and leaves direction unchanged;
\* a successful Reverse play with exactly 2 seated players ends with that
\* same turn_index and direction.
C7_SkipAdvancesTwo ==
    [][ ( /\ SuccessfulPlay
          /\ \/ SplitVal(Played) = <<"Skip">>
             \/ SplitVal(Played) = <<"Reverse">> /\ Len(players) = 2 )
        => (turn_index' = SeatAfter(2) /\ direction' = direction) ]_vars

\* a Skip has just been played in a room of three, and the turn went two seats on
C7_Witness ==
    /\ msg.type = "command" /\ lower(msg.parts[1]) = "play"
    /\ discard # <<>> /\ SplitVal(TopOf(discard)) = <<"Skip">>
    /\ out # <<>> /\ out[1].text = <<"played", msg.addr, TopOf(discard)>>
    /\ Len(players) = 3
    /\ players[turn_index + 1] # msg.addr

-----------------------------------------------------------------------------
(* C8 *)

IsPenaltyCard(card) == card = WildDrawFour \/ SplitVal(card) = <<"Draw", "Two">>

PenaltyOf(card) == IF card = WildDrawFour THEN 4 ELSE 2

\* the player at seat (i + direction) mod n
Penalised == players[SeatAfter(1) + 1]

\* C8 as stated: after a successful penalty play (Wild Draw Four k = 4, Draw
\* Two k = 2) the hand of the player at seat (i + direction) mod n has grown
\* by exactly k cards, no other hand has grown, and turn_index is
\* (i + 2*direction) mod n.
C8_Original ==
    [][ (SuccessfulPlay /\ IsPenaltyCard(Played))
        => ( /\ Len(hands'[Penalised]) = Len(hands[Penalised]) + PenaltyOf(Played)
             /\ \A a \in (DOMAIN hands) \ {Penalised} : Len(hands'[a]) <= Len(hands[a])
             /\ turn_index' = SeatAfter(2) ) ]_vars

\* C8 amended: the player at seat (i + direction) mod n receives the last
\* min(k, |deck|) cards of the deck, in the order they are popped, appended
\* to their hand (with one seated player that player is the caller, whose
\* hand has also lost the card played); the deck loses exactly those cards,
\* no other hand grows, and turn_index is (i + 2*direction) mod n.
C8_PenaltyDraw ==
    [][ (SuccessfulPlay /\ IsPenaltyCard(Played))
        => LET m == Min(PenaltyOf(Played), Len(deck))
               popped == [j \in 1..m |-> deck[Len(deck) + 1 - j]]
               before == IF Penalised = Caller
                         THEN RemoveAt(hands[Caller], int(msg'.parts[2]))
                         ELSE hands[Penalised]
           IN  /\ hands'[Penalised] = before \o popped
               /\ deck' = SubSeq(deck, 1, Len(deck) - m)
               /\ \A a \in (DOMAIN hands) \ {Penalised} : Len(hands'[a]) <= Len(hands[a])
               /\ turn_index' = SeatAfter(2) ]_vars

\* a Wild Draw Four has just been played in a room of two or more with fewer
\* than four cards left in the deck: the next player drew what was left
C8_Witness ==
    /\ msg.type = "command" /\ lower(msg.parts[1]) = "play"
    /\ discard # <<>> /\ TopOf(discard) = WildDrawFour
    /\ Len(players) >= 2
    /\ deck = <<>>
    /\ \E k \in 1..Len(out) :
          /\ out[k].text[1] = "DRAWN"
          /\ out[k].addr # msg.addr
          /\ Len(out[k].text[2]) \in 1..3

-----------------------------------------------------------------------------
(* C9 *)

\* C9: a draw command by the player on turn always advances turn_index by
\* one seat in the current direction; with a non-empty deck the caller's hand
\* gains exactly the card removed from the deck, with an empty deck the
\* caller gets an ERROR and no hand changes.
C9_DrawAdvancesOne ==
    [][ (IsCommand /\ Seated(Caller) /\ OnTurn(Caller) /\ Verb = "draw")
        => /\ turn_index' = SeatAfter(1)
           /\ direction' = direction
           /\ IF deck # <<>>
              THEN /\ deck' = SubSeq(deck, 1, Len(deck) - 1)
                   /\ hands' = [hands EXCEPT ![Caller] = Append(@, deck[Len(deck)])]
              ELSE /\ deck' = deck
                   /\ hands' = hands
                   /\ IsErrorTo(out'[1], Caller)
                   /\ \A k \in 1..Len(out') : out'[k].text[1] = "ERROR" => out'[k].addr = Caller
      ]_vars

\* the player on turn drew from an empty deck: an ERROR, and the turn moved on
C9_Witness ==
    /\ msg.type = "command" /\ lower(msg.parts[1]) = "draw"
    /\ deck = <<>>
    /\ out # <<>> /\ out[1].text[1] = "ERROR" /\ out[1].text[2] = "No cards left to draw"
    /\ Len(players) >= 2 /\ players[turn_index + 1] # msg.addr

-----------------------------------------------------------------------------
(* C10 *)

\* C10: hand/myhand and top/look from a seated player, on turn or not, and
\* exit from a player who is not seated, change nothing of the room (players,
\* hands, deck, discard, turn_index, direction, active_color).
C10_QueriesChangeNothing ==
    [][ ( /\ IsCommand
          /\ \/ Seated(Caller) /\ Verb \in {"hand", "myhand", "top", "look"}
             \/ ~Seated(Caller) /\ Verb = "exit" )
        => RoomUnchanged ]_vars

\* a top query was answered while a match is on and the asker is not on turn
C10_Witness ==
    /\ msg.type = "command" /\ lower(msg.parts[1]) \in {"top", "look"}
    /\ discard # <<>>
    /\ InSeq(players, msg.addr) /\ players[turn_index + 1] # msg.addr
    /\ Len(out) = 1 /\ out[1].text = <<"TOP", TopOf(discard)>>

-----------------------------------------------------------------------------
(* C11 *)

ActiveColorStep ==
    SuccessfulPlay =>
        IF StartsWithWild(Played)
        THEN active_color' = IF Len(msg'.parts) >= 3
                             THEN capitalize(msg'.parts[3])
                             ELSE "Red"
        ELSE active_color' = "None"

\* C11: active_color is always unset or one of Red, Green, Blue, Yellow, and
\* it is set only while the top of the discard pile is a Wild or a Wild Draw
\* Four; a successful Wild play sets it to the capitalised colour argument
\* (Red when there is none) and a successful non-wild play leaves it unset.
C11_ActiveColor ==
    /\ [](active_color \in Colors \cup {"None"})
    /\ [](active_color # "None" => (discard # <<>> /\ StartsWithWild(TopOf(discard))))
    /\ [][ActiveColorStep]_vars

\* a non-wild card has just been played on a Wild that was itself played in
\* this match: the colour is unset again
C11_Witness ==
    /\ msg.type = "command" /\ lower(msg.parts[1]) = "play"
    /\ Len(discard) >= 3
    /\ StartsWithWild(discard[Len(discard) - 1])
    /\ ~StartsWithWild(TopOf(discard))
    /\ out # <<>> /\ out[1].text = <<"played", msg.addr, TopOf(discard)>>
    /\ active_color = "None"

-----------------------------------------------------------------------------
(* C12 *)

NumberWords == {"0", "1", "2", "3", "4", "5", "6", "7", "8", "9"}

IsNumeric(card) == Len(card) = 2 /\ card[1] \in NumberWords

\* card matches top by value and not by colour
ValueOnlyMatch(card, top) ==
    /\ IsNumeric(card) /\ IsNumeric(top)
    /\ card[1] = top[1]
    /\ card[2] # top[2]

\* the second seated player of a started two-player match plays, with no
\* active colour in force, a numeric card that matches the top by value only
ValueOnlyPlayBySecond ==
    /\ IsCommand /\ Verb = "play"
    /\ Len(players) = 2 /\ discard # <<>>
    /\ Caller = players[2]
    /\ PlayIndexValid
    /\ active_color = "None"
    /\ ValueOnlyMatch(PlaySelected, TopOf(discard))

AcceptedTurnToFirst ==
    /\ hands' = [hands EXCEPT ![Caller] = RemoveAt(@, int(msg'.parts[2]))]
    /\ discard' = Append(discard, PlaySelected)
    /\ turn_index' = 0

\* C12 as stated: in a started match of exactly two seated players, when
\* player 2 plays a numeric card matching the top of the discard pile by
\* value only (no active_color in force), the card moves from player 2's hand
\* to the top of the discard pile and the turn passes to player 1.
C12_Original == [][ValueOnlyPlayBySecond => AcceptedTurnToFirst]_vars

\* C12 amended: the same, when it is player 2's turn.
C12_ValueOnlyMatchAccepted ==
    [][(ValueOnlyPlayBySecond /\ OnTurn(Caller)) => AcceptedTurnToFirst]_vars

\* player 2 has just played a numeric card on a numeric card of the same
\* value and another colour, and player 1 is on turn
C12_Witness ==
    /\ msg.type = "command" /\ lower(msg.parts[1]) = "play"
    /\ Len(players) = 2 /\ msg.addr = players[2]
    /\ Len(discard) >= 2
    /\ ValueOnlyMatch(TopOf(discard), discard[Len(discard) - 1])
    /\ out # <<>> /\ out[1].text = <<"played", msg.addr, TopOf(discard)>>
    /\ turn_index = 0

-----------------------------------------------------------------------------
(* The broker of src/broker.py: a registry of workers behind one lock, and    *)
(* one handle_connection thread per accepted connection, which reads one      *)
(* request line, answers it and closes.                                       *)

MaxAccept == 2

MaxTicks == 2

\* the clock moves by one of these between any two steps
TickSteps == {60, 61}

\* now - last_seen > 120
StaleAfter == 120

\* f"worker-{next_worker_id}"
WorkerNames == <<"worker-1", "worker-2", "worker-3", "worker-4", "worker-5",
                 "worker-6", "worker-7", "worker-8", "worker-9">>

PortWords == {"7001", "7002"}

\* int(parts[2]); a word that is no numeral raises ValueError
port_of(w) == IF w = "7001" THEN 7001 ELSE 7002

Requests ==
    { <<"WORKER_REGISTER", "h1", "7001">>,
      <<"WORKER_REGISTER", "h2", "7002">>,
      <<"WORKER_REGISTER", "h1", "x">>,
      <<"WORKER_REGISTER", "h1">>,
      <<"CLIENT_REQ", "auto">>,
      <<"CLIENT_REQ", "t1">>,
      <<"CLIENT_REQ">>,
      <<"WORKER_HEARTBEAT", "worker-1">>,
      <<"WORKER_HEARTBEAT", "worker-2">>,
      <<"WORKER_HEARTBEAT", "worker-9">>,
      <<"WORKER_HEARTBEAT">>,
      <<"HELLO">> }

\* position of worker id wid in the registry, 0 when it is not a key
WorkerIndex(ws, wid) ==
    IF \E i \in 1..Len(ws) : ws[i].id = wid
    THEN CHOOSE i \in 1..Len(ws) : ws[i].id = wid
    ELSE 0

\* a worker counted as stale already at the threshold
is_stale_at_threshold(w, t) == t - w.last_seen >= StaleAfter

\* line 51
is_stale(w, t) == t - w.last_seen > StaleAfter

\* lines 40: workers[worker_id] = {...}
register(ws, n, host, port, t) ==
    Append(ws, [id |-> WorkerNames[n], host |-> host, port |-> port,
                load |-> 0, last_seen |-> t])

\* the cleanup popping nothing
evict_none(ws, t) == ws

\* lines 49-53: pop every worker seen too long ago
evict_stale(ws, t) == SelectSeq(ws, LAMBDA w : ~is_stale(w, t))

\* the last of the minimal items instead of the first
least_loaded_last(ws) ==
    CHOOSE i \in 1..Len(ws) :
        /\ \A j \in 1..Len(ws) : ws[i].load <= ws[j].load
        /\ \A j \in (i + 1)..Len(ws) : ws[j].load > ws[i].load

\* line 60: min(workers.items(), key=load), the first minimal item in
\* insertion order
least_loaded(ws) ==
    CHOOSE i \in 1..Len(ws) :
        /\ \A j \in 1..Len(ws) : ws[i].load <= ws[j].load
        /\ \A j \in 1..(i - 1) : ws[j].load > ws[i].load

\* a heartbeat that enters an unknown id into the registry
heartbeat_upsert(ws, wid, t) ==
    IF WorkerIndex(ws, wid) # 0
    THEN [ws EXCEPT ![WorkerIndex(ws, wid)].last_seen = t]
    ELSE Append(ws, [id |-> wid, host |-> "h1", port |-> 7001, load |-> 0,
                     last_seen |-> t])

\* lines 75-79: the registry after a heartbeat for wid
heartbeat(ws, wid, t) ==
    IF WorkerIndex(ws, wid) # 0
    THEN [ws EXCEPT ![WorkerIndex(ws, wid)].last_seen = t]
    ELSE ws

\* a "with LOCK:" that excludes nobody
can_acquire_always(c) == TRUE

\* "with LOCK:" can be entered by the handler of connection c
can_acquire(c) == LOCK = "free"

\* lines 22-46, 71-81: what the thread does with the request line it read
dispatch(parts) ==
    IF parts[1] = "WORKER_REGISTER"
    THEN IF Len(parts) < 3
         THEN [Closed EXCEPT !.pc = "done", !.req = parts,
                             !.reply = <<"ERROR", "Missing args">>]
         ELSE IF parts[3] \notin PortWords
         THEN [Closed EXCEPT !.pc = "done", !.req = parts]
         ELSE [Closed EXCEPT !.pc = "register", !.req = parts]
    ELSE IF parts[1] = "CLIENT_REQ"
    THEN [Closed EXCEPT !.pc = "client_req", !.req = parts]
    ELSE IF parts[1] = "WORKER_HEARTBEAT"
    THEN [Closed EXCEPT !.pc = "heartbeat", !.req = parts]
    ELSE [Closed EXCEPT !.pc = "done", !.req = parts,
                        !.reply = <<"ERROR", "Unknown command">>]

\* line 46
desired_room(parts) == IF Len(parts) > 1 THEN parts[2] ELSE "auto"

\* line 73; "None" is never a key of the registry
heartbeat_id(parts) == IF Len(parts) > 1 THEN parts[2] ELSE "None"

\* no room runs beside the broker
RoomOff ==
    /\ deck = <<>>
    /\ discard = <<>>
    /\ players = <<>>
    /\ hands = <<>>
    /\ turn_index = 0
    /\ direction = 1
    /\ active_color = "None"
    /\ crashed = FALSE
    /\ out = <<>>
    /\ msg = [type |-> "none", addr |-> "none", parts |-> <<>>]
    /\ inbox = <<>>
    /\ free = 0

\* a worker as register leaves it, after k assignments
Worker(n, host, port, k) ==
    [id |-> WorkerNames[n], host |-> host, port |-> port, load |-> k, last_seen |-> 0]

\* registries the broker reaches by registrations and assignments alone
Registries ==
    { <<>>,
      <<Worker(1, "h1", 7001, 0)>>,
      <<Worker(1, "h1", 7001, 3), Worker(2, "h2", 7002, 0)>>,
      <<Worker(1, "h1", 7001, 1), Worker(2, "h2", 7002, 1)>> }

RECURSIVE SumLoads(_)
SumLoads(ws) == IF ws = <<>> THEN 0 ELSE Head(ws).load + SumLoads(Tail(ws))

BrokerInit ==
    /\ workers \in Registries
    /\ next_worker_id = Len(workers) + 1
    /\ now = 0
    /\ LOCK = "free"
    /\ handler = [c \in Conns |-> Closed]
    /\ accepted = 0
    /\ ticks = 0
    /\ assigned = SumLoads(workers)
    /\ evictions = 0
    /\ RoomOff
    /\ RelayOff

\* the exception handler and "finally" of lines 83-86, leaving a "with LOCK"
abort(c) ==
    /\ handler' = [handler EXCEPT ![c].pc = "done"]
    /\ LOCK' = "free"
    /\ UNCHANGED <<workers, next_worker_id, now, accepted, ticks, assigned, evictions>>

\* lines 94-96 and 22-27: accept a connection and read its request line
Accept(c, parts) ==
    /\ handler[c].pc = "closed"
    /\ accepted < MaxAccept
    /\ accepted' = accepted + 1
    /\ handler' = [handler EXCEPT ![c] = dispatch(parts)]
    /\ UNCHANGED <<workers, next_worker_id, now, LOCK, ticks, assigned, evictions>>

\* lines 34-42
Register(c) ==
    /\ handler[c].pc = "register"
    /\ can_acquire(c)
    /\ workers' = register(workers, next_worker_id, handler[c].req[2],
                           port_of(handler[c].req[3]), now)
    /\ next_worker_id' = next_worker_id + 1
    /\ handler' = [handler EXCEPT ![c].pc = "done",
                                  ![c].reply = <<"OK_REGISTERED", WorkerNames[next_worker_id]>>]
    /\ UNCHANGED <<now, LOCK, accepted, ticks, assigned, evictions>>

\* line 47
AcquireLock(c) ==
    /\ handler[c].pc = "client_req"
    /\ can_acquire(c)
    /\ LOCK' = c
    /\ handler' = [handler EXCEPT ![c].pc = "evict"]
    /\ UNCHANGED <<workers, next_worker_id, now, accepted, ticks, assigned, evictions>>

\* lines 49-53
Evict(c) ==
    /\ handler[c].pc = "evict"
    /\ workers' = evict_stale(workers, now)
    /\ evictions' = evictions + (Len(workers) - Len(workers'))
    /\ handler' = [handler EXCEPT ![c].pc = "pick"]
    /\ UNCHANGED <<next_worker_id, now, LOCK, accepted, ticks, assigned>>

\* lines 55-60
Pick(c) ==
    /\ handler[c].pc = "pick"
    /\ IF workers = <<>>
       THEN /\ handler' = [handler EXCEPT ![c].pc = "done", ![c].reply = <<"NO_WORKERS">>]
            /\ LOCK' = "free"
       ELSE /\ handler' = [handler EXCEPT ![c].pc = "load",
                                          ![c].chosen = workers[least_loaded(workers)].id]
            /\ LOCK' = LOCK
    /\ UNCHANGED <<workers, next_worker_id, now, accepted, ticks, assigned, evictions>>

\* line 61, the read of workers[chosen]["load"] += 1
LoadRead(c) ==
    /\ handler[c].pc = "load"
    /\ IF WorkerIndex(workers, handler[c].chosen) = 0
       THEN abort(c)
       ELSE /\ handler' = [handler EXCEPT
                  ![c].pc = "store",
                  ![c].load = workers[WorkerIndex(workers, handler[c].chosen)].load]
            /\ UNCHANGED <<workers, next_worker_id, now, LOCK, accepted, ticks,
                           assigned, evictions>>

\* line 61, the write of workers[chosen]["load"] += 1
Store(c) ==
    /\ handler[c].pc = "store"
    /\ IF WorkerIndex(workers, handler[c].chosen) = 0
       THEN abort(c)
       ELSE /\ workers' = [workers EXCEPT
                  ![WorkerIndex(workers, handler[c].chosen)].load = handler[c].load + 1]
            /\ handler' = [handler EXCEPT ![c].pc = "refresh"]
            /\ UNCHANGED <<next_worker_id, now, LOCK, accepted, ticks, assigned, evictions>>

\* lines 62-65, and the end of the "with LOCK"
Refresh(c) ==
    /\ handler[c].pc = "refresh"
    /\ IF WorkerIndex(workers, handler[c].chosen) = 0
       THEN abort(c)
       ELSE LET i == WorkerIndex(workers, handler[c].chosen) IN
            /\ workers' = [workers EXCEPT ![i].last_seen = now]
            /\ handler' = [handler EXCEPT ![c].pc = "reply",
                                          ![c].dest = <<workers[i].host, workers[i].port>>]
            /\ LOCK' = "free"
            /\ UNCHANGED <<next_worker_id, now, accepted, ticks, assigned, evictions>>

\* line 69
Reply(c) ==
    /\ handler[c].pc = "reply"
    /\ handler' = [handler EXCEPT
          ![c].pc = "done",
          ![c].reply = <<"ASSIGN", handler[c].dest[1], handler[c].dest[2],
                         desired_room(handler[c].req)>>]
    /\ assigned' = assigned + 1
    /\ UNCHANGED <<workers, next_worker_id, now, LOCK, accepted, ticks, evictions>>

\* lines 73-79
Heartbeat(c) ==
    /\ handler[c].pc = "heartbeat"
    /\ can_acquire(c)
    /\ workers' = heartbeat(workers, heartbeat_id(handler[c].req), now)
    /\ handler' = [handler EXCEPT
          ![c].pc = "done",
          ![c].reply = IF WorkerIndex(workers, heartbeat_id(handler[c].req)) # 0
                       THEN <<"OK">> ELSE <<"UNKNOWN_WORKER">>]
    /\ UNCHANGED <<next_worker_id, now, LOCK, accepted, ticks, assigned, evictions>>

\* line 86
Close(c) ==
    /\ handler[c].pc = "done"
    /\ handler' = [handler EXCEPT ![c] = Closed]
    /\ UNCHANGED <<workers, next_worker_id, now, LOCK, accepted, ticks, assigned, evictions>>

\* time passes
Tick ==
    /\ ticks < MaxTicks
    /\ ticks' = ticks + 1
    /\ \E d \in TickSteps : now' = now + d
    /\ UNCHANGED <<workers, next_worker_id, LOCK, handler, accepted, assigned, evictions>>

BrokerNext ==
    \/ \E c \in Conns, parts \in Requests : Accept(c, parts) /\ UNCHANGED <<room_vars, relay_vars>>
    \/ \E c \in Conns : Register(c) /\ UNCHANGED <<room_vars, relay_vars>>
    \/ \E c \in Conns : AcquireLock(c) /\ UNCHANGED <<room_vars, relay_vars>>
    \/ \E c \in Conns : Evict(c) /\ UNCHANGED <<room_vars, relay_vars>>
    \/ \E c \in Conns : Pick(c) /\ UNCHANGED <<room_vars, relay_vars>>
    \/ \E c \in Conns : LoadRead(c) /\ UNCHANGED <<room_vars, relay_vars>>
    \/ \E c \in Conns : Store(c) /\ UNCHANGED <<room_vars, relay_vars>>
    \/ \E c \in Conns : Refresh(c) /\ UNCHANGED <<room_vars, relay_vars>>
    \/ \E c \in Conns : Reply(c) /\ UNCHANGED <<room_vars, relay_vars>>
    \/ \E c \in Conns : Heartbeat(c) /\ UNCHANGED <<room_vars, relay_vars>>
    \/ \E c \in Conns : Close(c) /\ UNCHANGED <<room_vars, relay_vars>>
    \/ Tick /\ UNCHANGED <<room_vars, relay_vars>>

BrokerSpec == BrokerInit /\ [][BrokerNext]_vars

-----------------------------------------------------------------------------
(* What a broker step is about: Step(c, a, b) is a step of the handler of     *)
(* connection c from position a to position b.                                *)

Step(c, a, b) == handler[c].pc = a /\ handler'[c].pc = b

Ids(ws) == {ws[i].id : i \in 1..Len(ws)}

ById(ws, wid) == ws[CHOOSE i \in 1..Len(ws) : ws[i].id = wid]

\* the same workers in the same order, equal in all but the fields named
SameBut(ws, ws2, wid, fields) ==
    /\ Len(ws2) = Len(ws)
    /\ \A i \in 1..Len(ws) :
          /\ ws2[i].id = ws[i].id
          /\ ws2[i].host = ws[i].host
          /\ ws2[i].port = ws[i].port
          /\ (ws[i].id # wid \/ "load" \notin fields) => ws2[i].load = ws[i].load
          /\ (ws[i].id # wid \/ "last_seen" \notin fields) => ws2[i].last_seen = ws[i].last_seen

IsAssign(c) == handler[c].reply # <<>> /\ handler[c].reply[1] = "ASSIGN"

-----------------------------------------------------------------------------
(* C13 *)

\* wid is the earliest-registered worker of minimal load in ws
EarliestLeastLoaded(ws, wid) ==
    \E i \in 1..Len(ws) :
        /\ ws[i].id = wid
        /\ \A j \in 1..Len(ws) : ws[j].load >= ws[i].load
        /\ \A j \in 1..Len(ws) : ws[j].load = ws[i].load => j >= i

\* C13: with a live worker registered, Assign(room_hint) chooses the
\* earliest-registered worker of minimal load among the workers left after
\* the cleanup, adds exactly 1 to that worker's load and changes no other
\* load, and answers ASSIGN with that worker's host and port and the
\* room_hint as given.
C13_AssignLeastLoaded ==
    [][\A c \in Conns :
        /\ Step(c, "pick", "load")
              => /\ EarliestLeastLoaded(workers, handler'[c].chosen)
                 /\ workers' = workers
        /\ (Step(c, "load", "store") \/ Step(c, "store", "refresh"))
              => handler'[c].chosen = handler[c].chosen
        /\ Step(c, "load", "store") => workers' = workers
        /\ Step(c, "store", "refresh")
              => /\ SameBut(workers, workers', handler[c].chosen, {"load"})
                 /\ ById(workers', handler[c].chosen).load
                       = ById(workers, handler[c].chosen).load + 1
        /\ Step(c, "refresh", "reply")
              => /\ SameBut(workers, workers', handler[c].chosen, {"last_seen"})
                 /\ handler'[c].dest = <<ById(workers, handler[c].chosen).host,
                                         ById(workers, handler[c].chosen).port>>
        /\ Step(c, "reply", "done")
              => /\ workers' = workers
                 /\ handler'[c].reply
                       = <<"ASSIGN", handler[c].dest[1], handler[c].dest[2],
                           IF Len(handler[c].req) > 1 THEN handler[c].req[2] ELSE "auto">>
      ]_vars

\* workers with loads 3 and 0: the request was answered with the load-0
\* worker, whose load is now 1
C13_Witness ==
    \E c \in Conns :
        /\ handler[c].pc = "done" /\ IsAssign(c)
        /\ handler[c].reply = <<"ASSIGN", "h2", 7002, "t1">>
        /\ Len(workers) = 2
        /\ workers[1].load = 3
        /\ workers[2].id = "worker-2" /\ workers[2].load = 1

-----------------------------------------------------------------------------
(* C14 *)

-----------------------------------------------------------------------------
(* C15 *)

InLock == {"evict", "pick", "load", "store", "refresh"}

\* Assigns that have incremented a load and not yet sent their ASSIGN line
Unanswered == Cardinality({c \in Conns : handler[c].pc \in {"refresh", "reply"}})

NoLoadDecreases ==
    \A wid \in Ids(workers) \cap Ids(workers') :
        ById(workers', wid).load >= ById(workers, wid).load

\* an Assign increments the load it chose the worker by, and alone
AssignIsAtomic ==
    /\ \A c, d \in Conns :
          (handler[c].pc \in InLock /\ handler[d].pc \in InLock) => c = d
    /\ \A c \in Conns :
          handler[c].pc = "store"
             => /\ handler[c].chosen \in Ids(workers)
                /\ ById(workers, handler[c].chosen).load = handler[c].load
                /\ EarliestLeastLoaded(workers, handler[c].chosen)

\* C15 as stated: under every interleaving no increment is lost and no load
\* decreases, so while no worker is evicted the sum of the loads equals the
\* number of ASSIGN responses issued, and no two Assigns choose on the same
\* pre-increment load.
C15_Original ==
    /\ [][NoLoadDecreases]_vars
    /\ [](evictions = 0 => SumLoads(workers) = assigned)
    /\ []AssignIsAtomic

\* C15 amended: the same, with the sum of the loads equal to the number of
\* ASSIGN responses issued plus the number of Assigns that have incremented
\* a load and not yet sent their response (the ASSIGN line is sent after the
\* lock is released).
C15_AssignAtomic ==
    /\ [][NoLoadDecreases]_vars
    /\ [](evictions = 0 => SumLoads(workers) = assigned + Unanswered)
    /\ []AssignIsAtomic

\* an Assign is between its read and its write of a load while another
\* Assign waits at the lock
C15_Witness ==
    \E c, d \in Conns :
        /\ c # d
        /\ handler[c].pc = "store"
        /\ handler[d].pc = "client_req"
        /\ LOCK = c

-----------------------------------------------------------------------------
(* C16 *)

\* C16: a heartbeat for an id in the registry refreshes that worker's
\* last_seen and nothing else, and answers OK; for any other id it answers
\* UNKNOWN_WORKER and leaves the registry as it is.
C16_Heartbeat ==
    [][\A c \in Conns :
        handler[c].pc = "heartbeat" /\ handler'[c].pc = "done"
           => LET wid == IF Len(handler[c].req) > 1 THEN handler[c].req[2] ELSE "None" IN
              IF wid \in Ids(workers)
              THEN /\ SameBut(workers, workers', wid, {"last_seen"})
                   /\ ById(workers', wid).last_seen = now
                   /\ handler'[c].reply = <<"OK">>
              ELSE /\ workers' = workers
                   /\ handler'[c].reply = <<"UNKNOWN_WORKER">>
      ]_vars

\* a heartbeat for worker-1, evicted before, was answered UNKNOWN_WORKER and
\* worker-1 is still not registered
C16_Witness ==
    \E c \in Conns :
        /\ handler[c].pc = "done"
        /\ handler[c].req = <<"WORKER_HEARTBEAT", "worker-1">>
        /\ handler[c].reply = <<"UNKNOWN_WORKER">>
        /\ evictions > 0
        /\ "worker-1" \notin Ids(workers)

-----------------------------------------------------------------------------
(* The relay of src/unoservers.py (GameServer): one handle_client thread per  *)
(* connection, one listen_for_room_messages thread fanning the rooms' pipes   *)
(* out to the connections, and the maps they share behind self.lock.  A room  *)
(* engine is seen here by the kind and addressee of what it writes; a         *)
(* message carries the number n of its emission by its room.                  *)

\* len(players) < 4
RoomCap == 4

\* f"room{len(self.rooms)+1}"
Numbered == <<"room1", "room2", "room3">>

\* what a client types as the room name ("" is an empty read)
NameLines == {"auto", "AUTO", "t1", ""}

\* what a client types afterwards ("" is an empty read, "reset" a connection
\* reset under recv)
CommandLines == {"exit", "EXIT", "", "reset"}

\* str.lower()
lower_line(w) ==
    CASE w = "AUTO" -> "auto"
      [] w = "EXIT" -> "exit"
      [] OTHER -> w

Msg(kind, rn, addr, n) == [kind |-> kind, rn |-> rn, addr |-> addr, n |-> n]

\* lock.acquire() by thread t returns
can_lock(t) == lock = "free"

\* a pipe handing out the message written last
pipe_recv_last(q) == <<q[Len(q)], SubSeq(q, 1, Len(q) - 1)>>

\* pipe.recv() on the relay's end of a room's pipe: the message received and
\* what stays in the pipe
pipe_recv(q) == <<Head(q), Tail(q)>>

\* lines 423-426: the first room, in the order of self.room_players, with
\* fewer than 4 players; "" stands for None
small_room(rp, names) ==
    IF \E i \in 1..Len(names) : Len(rp[names[i]]) < RoomCap
    THEN names[CHOOSE i \in 1..Len(names) :
                  /\ Len(rp[names[i]]) < RoomCap
                  /\ \A j \in 1..(i - 1) : Len(rp[names[j]]) >= RoomCap]
    ELSE ""

\* lines 467-469, for one roster
without(roster, p) == SelectSeq(roster, LAMBDA q : q # p)

\* what game_room_process writes for an inbound message m, by kind and
\* addressee, numbered from n + 1: the "joined" broadcast, the HAND line and
\* the INFO line for a new client who is not seated yet (lines 153-158),
\* the "left" broadcast for the exit of a seated player (line 190), the
\* ERROR line for a command of somebody who is not seated (line 165)
engine_writes(rn, m, n) ==
    IF m.type = "new_client"
    THEN IF InSeq(seated[rn], m.addr) THEN <<>>
         ELSE <<Msg("broadcast", rn, "*", n + 1), Msg("send", rn, m.addr, n + 2),
                Msg("send", rn, m.addr, n + 3)>>
    ELSE IF InSeq(seated[rn], m.addr)
         THEN <<Msg("broadcast", rn, "*", n + 1)>>
         ELSE <<Msg("send", rn, m.addr, n + 1)>>

\* the engine's players after message m: players.append (line 154) for a new
\* client, remove_player (line 189) for an exit command
engine_seats(rn, m) ==
    IF m.type = "new_client"
    THEN IF InSeq(seated[rn], m.addr) THEN seated[rn] ELSE Append(seated[rn], m.addr)
    ELSE without(seated[rn], m.addr)

\* a room of three connected players who have sent nothing, its process
\* still starting
RelayInit ==
    /\ \E seats \in {<<>>, <<"x1", "x2", "x3">>} :
          /\ rooms = IF seats = <<>> THEN <<>> ELSE <<"room1">>
          /\ room_players = [rn \in RoomNames |-> IF rn = "room1" THEN seats ELSE <<>>]
          /\ pipe_in = [rn \in RoomNames |->
                           IF rn = "room1"
                           THEN [i \in 1..Len(seats) |->
                                    [type |-> "new_client", addr |-> seats[i], text |-> ""]]
                           ELSE <<>>]
          /\ engine = [rn \in RoomNames |->
                          IF rn = "room1" /\ seats # <<>> THEN "starting" ELSE "none"]
          /\ client_map = {seats[i] : i \in 1..Len(seats)}
          /\ client = [p \in Keys |->
                          IF \E i \in 1..Len(seats) : seats[i] = p
                          THEN [pc |-> "relay", asked |-> "auto", room_name |-> "room1"]
                          ELSE NoClient]
    /\ pipe_out = [rn \in RoomNames |-> <<>>]
    /\ emitted = [rn \in RoomNames |-> 0]
    /\ seated = [rn \in RoomNames |-> <<>>]
    /\ lock = "free"
    /\ fanout = FanoutIdle
    /\ delivered = [p \in Keys |-> <<>>]
    /\ taken = [rn \in RoomNames |-> <<>>]
    /\ RoomOff
    /\ BrokerOff

\* lines 356-366
create_game_room(name) ==
    /\ rooms' = IF InSeq(rooms, name) THEN rooms ELSE Append(rooms, name)
    /\ room_players' = [room_players EXCEPT ![name] = <<>>]
    /\ pipe_in' = [pipe_in EXCEPT ![name] = <<>>]
    /\ pipe_out' = [pipe_out EXCEPT ![name] = <<>>]
    /\ engine' = [engine EXCEPT ![name] = "starting"]
    /\ seated' = [seated EXCEPT ![name] = <<>>]

\* lines 349-354: accept a connection and enter it into client_map
Connect(p) ==
    /\ client[p].pc = "none"
    /\ can_lock("accept")
    /\ client_map' = client_map \cup {p}
    /\ client' = [client EXCEPT ![p].pc = "welcome"]
    /\ UNCHANGED <<rooms, room_players, pipe_in, pipe_out, engine, emitted, lock,
                   fanout, delivered, taken, seated>>

\* lines 410-419, 430: read the room name
ReadRoomName(p, line) ==
    /\ client[p].pc = "welcome"
    /\ client' = [client EXCEPT
          ![p].pc = IF line = "" THEN "early_close"
                    ELSE IF lower_line(line) = "auto" THEN "auto_scan"
                    ELSE "check_room",
          ![p].asked = line,
          ![p].room_name = line]
    /\ UNCHANGED <<rooms, room_players, pipe_in, pipe_out, engine, emitted, client_map,
                   lock, fanout, delivered, taken, seated>>

\* lines 413-416
EarlyClose(p) ==
    /\ client[p].pc = "early_close"
    /\ can_lock(p)
    /\ client_map' = client_map \ {p}
    /\ client' = [client EXCEPT ![p].pc = "finally"]
    /\ UNCHANGED <<rooms, room_players, pipe_in, pipe_out, engine, emitted, lock,
                   fanout, delivered, taken, seated>>

\* lines 421-427
AutoScan(p) ==
    /\ client[p].pc = "auto_scan"
    /\ can_lock(p)
    /\ LET chosen == small_room(room_players, rooms) IN
       client' = [client EXCEPT
          ![p].pc = IF chosen = "" THEN "auto_name" ELSE "check_room",
          ![p].room_name = chosen]
    /\ UNCHANGED <<rooms, room_players, pipe_in, pipe_out, engine, emitted, client_map,
                   lock, fanout, delivered, taken, seated>>

\* line 428
AutoName(p) ==
    /\ client[p].pc = "auto_name"
    /\ client' = [client EXCEPT ![p].pc = "auto_create",
                                ![p].room_name = Numbered[Len(rooms) + 1]]
    /\ UNCHANGED <<rooms, room_players, pipe_in, pipe_out, engine, emitted, client_map,
                   lock, fanout, delivered, taken, seated>>

\* lines 429-430
AutoCreate(p) ==
    /\ client[p].pc = "auto_create"
    /\ create_game_room(client[p].room_name)
    /\ client' = [client EXCEPT ![p].pc = "check_room"]
    /\ UNCHANGED <<emitted, client_map, lock, fanout, delivered, taken>>

\* line 433
CheckRoom(p) ==
    /\ client[p].pc = "check_room"
    /\ client' = [client EXCEPT
          ![p].pc = IF InSeq(rooms, client[p].room_name) THEN "register" ELSE "create"]
    /\ UNCHANGED <<rooms, room_players, pipe_in, pipe_out, engine, emitted, client_map,
                   lock, fanout, delivered, taken, seated>>

\* line 434
Create(p) ==
    /\ client[p].pc = "create"
    /\ create_game_room(client[p].room_name)
    /\ client' = [client EXCEPT ![p].pc = "register"]
    /\ UNCHANGED <<emitted, client_map, lock, fanout, delivered, taken>>

\* lines 437-439
RegisterPlayer(p) ==
    /\ client[p].pc = "register"
    /\ can_lock(p)
    /\ room_players' = [room_players EXCEPT
          ![client[p].room_name] = IF InSeq(@, p) THEN @ ELSE Append(@, p)]
    /\ client' = [client EXCEPT ![p].pc = "notify"]
    /\ UNCHANGED <<rooms, pipe_in, pipe_out, engine, emitted, client_map, lock, fanout,
                   delivered, taken, seated>>

\* lines 442-443
Notify(p) ==
    /\ client[p].pc = "notify"
    /\ pipe_in' = [pipe_in EXCEPT ![client[p].room_name] =
                      Append(@, [type |-> "new_client", addr |-> p, text |-> ""])]
    /\ client' = [client EXCEPT ![p].pc = "relay"]
    /\ UNCHANGED <<rooms, room_players, pipe_out, engine, emitted, client_map, lock,
                   fanout, delivered, taken, seated>>

\* lines 446-460: the relay loop reads an exit line, which it forwards, or
\* the end of the connection
ReadLine(p, line) ==
    /\ client[p].pc = "relay"
    /\ client' = [client EXCEPT ![p].pc = "finally"]
    /\ pipe_in' = IF lower_line(line) = "exit"
                  THEN [pipe_in EXCEPT ![client[p].room_name] =
                           Append(@, [type |-> "command", addr |-> p, text |-> "exit"])]
                  ELSE pipe_in
    /\ UNCHANGED <<rooms, room_players, pipe_out, engine, emitted, client_map, lock,
                   fanout, delivered, taken, seated>>

\* lines 461-469
Finally(p) ==
    /\ client[p].pc = "finally"
    /\ can_lock(p)
    /\ client_map' = client_map \ {p}
    /\ room_players' = [rn \in RoomNames |-> without(room_players[rn], p)]
    /\ client' = [client EXCEPT ![p].pc = "gone"]
    /\ UNCHANGED <<rooms, pipe_in, pipe_out, engine, emitted, lock, fanout, delivered,
                   taken, seated>>

\* line 145: the room process comes up
EngineStart(rn) ==
    /\ engine[rn] = "starting"
    /\ engine' = [engine EXCEPT ![rn] = "running"]
    /\ pipe_out' = [pipe_out EXCEPT ![rn] = Append(@, Msg("debug", rn, "*", emitted[rn] + 1))]
    /\ emitted' = [emitted EXCEPT ![rn] = @ + 1]
    /\ UNCHANGED <<rooms, room_players, pipe_in, client_map, lock, client, fanout,
                   delivered, taken, seated>>

\* lines 149-150 and what the room writes for the message
EngineStep(rn) ==
    /\ engine[rn] = "running"
    /\ pipe_in[rn] # <<>>
    /\ pipe_in' = [pipe_in EXCEPT ![rn] = Tail(@)]
    /\ LET ws == engine_writes(rn, Head(pipe_in[rn]), emitted[rn]) IN
       /\ pipe_out' = [pipe_out EXCEPT ![rn] = @ \o ws]
       /\ emitted' = [emitted EXCEPT ![rn] = @ + Len(ws)]
    /\ seated' = [seated EXCEPT ![rn] = engine_seats(rn, Head(pipe_in[rn]))]
    /\ UNCHANGED <<rooms, room_players, engine, client_map, lock, client, fanout,
                   delivered, taken>>

\* the connection of p still takes what is sent to it
conn_open(p) == client[p].pc \notin {"none", "finally", "gone"}

\* lines 398-405, entered by the fan-out thread for msg m and player addr
route_to_client(addr, m) ==
    delivered' = IF addr \in client_map /\ conn_open(addr)
                 THEN [delivered EXCEPT ![addr] = Append(@, <<m.rn, m.n>>)]
                 ELSE delivered

\* lines 372-376, 386-388: take one message from a room's pipe
FanTake(rn) ==
    /\ fanout.pc = "poll"
    /\ InSeq(rooms, rn)
    /\ pipe_out[rn] # <<>>
    /\ LET m == pipe_recv(pipe_out[rn])[1] IN
       /\ fanout' = [pc |-> CASE m.kind = "send" -> "send"
                              [] m.kind = "broadcast" -> "broadcast"
                              [] OTHER -> "poll",
                     msg |-> IF m.kind = "debug" THEN <<>> ELSE m,
                     todo |-> <<>>]
       /\ taken' = [taken EXCEPT ![rn] = Append(@, m.n)]
       /\ pipe_out' = [pipe_out EXCEPT ![rn] = pipe_recv(@)[2]]
    /\ UNCHANGED <<rooms, room_players, pipe_in, engine, emitted, client_map, lock,
                   client, delivered, seated>>

\* lines 377-379
FanSend ==
    /\ fanout.pc = "send"
    /\ can_lock("fanout")
    /\ route_to_client(fanout.msg.addr, fanout.msg)
    /\ fanout' = FanoutIdle
    /\ UNCHANGED <<rooms, room_players, pipe_in, pipe_out, engine, emitted, client_map,
                   lock, client, taken, seated>>

\* lines 383-384: take the lock and copy the roster
FanLock ==
    /\ fanout.pc = "broadcast"
    /\ can_lock("fanout")
    /\ lock' = "fanout"
    /\ fanout' = [fanout EXCEPT !.pc = "routing", !.todo = room_players[fanout.msg.rn]]
    /\ UNCHANGED <<rooms, room_players, pipe_in, pipe_out, engine, emitted, client_map,
                   client, delivered, taken, seated>>

\* lines 384-385: route to the next player of the copy, inside the lock, or
\* leave the "with" when the copy is used up
FanBroadcast ==
    /\ fanout.pc = "routing"
    /\ IF fanout.todo = <<>>
       THEN /\ lock' = "free"
            /\ fanout' = FanoutIdle
            /\ delivered' = delivered
       ELSE /\ can_lock("fanout")
            /\ route_to_client(Head(fanout.todo), fanout.msg)
            /\ fanout' = [fanout EXCEPT !.todo = Tail(@)]
            /\ lock' = lock
    /\ UNCHANGED <<rooms, room_players, pipe_in, pipe_out, engine, emitted, client_map,
                   client, taken, seated>>

RelayNext ==
    \/ \E p \in Active : Connect(p) /\ UNCHANGED <<room_vars, broker_vars>>
    \/ \E p \in Active, line \in NameLines :
          ReadRoomName(p, line) /\ UNCHANGED <<room_vars, broker_vars>>
    \/ \E p \in Active : EarlyClose(p) /\ UNCHANGED <<room_vars, broker_vars>>
    \/ \E p \in Active : AutoScan(p) /\ UNCHANGED <<room_vars, broker_vars>>
    \/ \E p \in Active : AutoName(p) /\ UNCHANGED <<room_vars, broker_vars>>
    \/ \E p \in Active : AutoCreate(p) /\ UNCHANGED <<room_vars, broker_vars>>
    \/ \E p \in Active : CheckRoom(p) /\ UNCHANGED <<room_vars, broker_vars>>
    \/ \E p \in Active : Create(p) /\ UNCHANGED <<room_vars, broker_vars>>
    \/ \E p \in Active : RegisterPlayer(p) /\ UNCHANGED <<room_vars, broker_vars>>
    \/ \E p \in Active : Notify(p) /\ UNCHANGED <<room_vars, broker_vars>>
    \/ \E p \in Active, line \in CommandLines :
          ReadLine(p, line) /\ UNCHANGED <<room_vars, broker_vars>>
    \/ \E p \in Active : Finally(p) /\ UNCHANGED <<room_vars, broker_vars>>
    \/ \E rn \in RoomNames : EngineStart(rn) /\ UNCHANGED <<room_vars, broker_vars>>
    \/ \E rn \in RoomNames : EngineStep(rn) /\ UNCHANGED <<room_vars, broker_vars>>
    \/ \E rn \in RoomNames : FanTake(rn) /\ UNCHANGED <<room_vars, broker_vars>>
    \/ FanSend /\ UNCHANGED <<room_vars, broker_vars>>
    \/ FanLock /\ UNCHANGED <<room_vars, broker_vars>>
    \/ FanBroadcast /\ UNCHANGED <<room_vars, broker_vars>>

RelaySpec == RelayInit /\ [][RelayNext]_vars

\* the steps a handle_client thread takes without waiting for its client
HandlerStep(p) ==
    /\ \/ EarlyClose(p)
       \/ AutoScan(p)
       \/ AutoName(p)
       \/ AutoCreate(p)
       \/ CheckRoom(p)
       \/ Create(p)
       \/ RegisterPlayer(p)
       \/ Notify(p)
       \/ Finally(p)
    /\ UNCHANGED <<room_vars, broker_vars>>

FanoutStep ==
    /\ (\E rn \in RoomNames : FanTake(rn)) \/ FanSend \/ FanLock \/ FanBroadcast
    /\ UNCHANGED <<room_vars, broker_vars>>

EngineRun(rn) ==
    /\ EngineStart(rn) \/ EngineStep(rn)
    /\ UNCHANGED <<room_vars, broker_vars>>

\* every thread and every room process that can take a step is scheduled
\* again and again; what the clients send and when is up to them
FairRelaySpec ==
    /\ RelaySpec
    /\ WF_vars(FanoutStep)
    /\ \A p \in Active : WF_vars(HandlerStep(p))
    /\ \A rn \in RoomNames : WF_vars(EngineRun(rn))

-----------------------------------------------------------------------------
(* C17 *)

\* the fan-out loop holds a broadcast that it has still to route to p
Owed(p) == fanout.pc = "routing" /\ InSeq(fanout.todo, p)

MsgId(m) == <<m.rn, m.n>>

\* a step changes what was delivered only by routing the message in hand: a
\* SendTo to its addressee, a Broadcast to a player of its room's roster
DeliveredOnlyAsRouted ==
    \A p \in Keys :
        delivered'[p] # delivered[p]
           => /\ delivered'[p] = Append(delivered[p], MsgId(fanout.msg))
              /\ p \in client_map
              /\ \/ fanout.pc = "send" /\ fanout.msg.addr = p
                 \/ Owed(p) /\ ~Owed(p)'

\* C17: every Broadcast is eventually delivered to every connection that is
\* in its room's roster when the fan-out loop processes it, and to no other
\* connection; a SendTo is delivered to the connection registered under
\* its player key alone, or dropped.
C17_FanOutDelivers ==
    /\ [][DeliveredOnlyAsRouted]_vars
    /\ [][\A p \in Keys :
            (Owed(p) /\ ~Owed(p)' /\ p \in client_map /\ conn_open(p))
               => delivered'[p] = Append(delivered[p], MsgId(fanout.msg))]_vars
    /\ (fanout.pc = "routing" /\ fanout.todo # <<>>) ~> (fanout.todo = <<>>)

\* what happens instead: the fan-out thread, inside "with self.lock", waits
\* in route_to_client for the lock it holds
C17_Stuck ==
    /\ fanout.pc = "routing"
    /\ fanout.todo # <<>>
    /\ lock = "fanout"

-----------------------------------------------------------------------------
(* C18 *)

Increasing(ns) == \A i, j \in 1..Len(ns) : i < j => ns[i] < ns[j]

\* the numbers of the messages of room rn among the ids in ds
OfRoom(ds, rn) == LET only == SelectSeq(ds, LAMBDA d : d[1] = rn)
                  IN  [i \in 1..Len(only) |-> only[i][2]]

\* C18: the relay forwards each room's messages in the order the room
\* emitted them: the fan-out loop receives them in that order and no
\* connection is sent a later message of a room before an earlier one,
\* however the other rooms are served in between.
C18_RoomOrderKept ==
    /\ \A rn \in RoomNames : Increasing(taken[rn])
    /\ \A p \in Keys, rn \in RoomNames : Increasing(OfRoom(delivered[p], rn))

\* a connection was sent two messages of its room, and in between their
\* emission and now the fan-out loop has served another room as well
C18_Witness ==
    \E p \in Keys, rn, other \in RoomNames :
        /\ rn # other
        /\ Len(OfRoom(delivered[p], rn)) >= 2
        /\ taken[other] # <<>>

-----------------------------------------------------------------------------
(* C19 *)

AskedAuto(p) == lower_line(client[p].asked) = "auto"

\* C19: a client asking for auto is placed in the first existing room with
\* fewer than 4 players if there is one, else in a newly created one; under
\* every interleaving no auto-assigned client is appended to a roster that
\* already holds 4 or more players.
C19_AutoRoomCap ==
    [][\A p \in Active :
        /\ (client[p].pc = "auto_scan" /\ client'[p].pc # "auto_scan")
              => IF \E i \in 1..Len(rooms) : Len(room_players[rooms[i]]) < RoomCap
                 THEN /\ InSeq(rooms, client'[p].room_name)
                      /\ Len(room_players[client'[p].room_name]) < RoomCap
                      /\ client'[p].pc = "check_room"
                 ELSE client'[p].pc = "auto_name"
        /\ (AskedAuto(p) /\ client[p].pc = "register" /\ client'[p].pc = "notify")
              => Len(room_players[client[p].room_name]) < RoomCap
      ]_vars

-----------------------------------------------------------------------------
(* C20 *)

Registered(p) == p \in client_map \/ \E rn \in RoomNames : InSeq(room_players[rn], p)

\* C20: when a connection sends exit or is closed or reset, the relay
\* removes that player's key, and no other, from the roster and from the
\* connection table, and the rest keeps running.
C20_CleanupOnDisconnect ==
    /\ [][\A p \in Active :
            (client[p].pc = "finally" /\ client'[p].pc = "gone")
               => /\ client_map' = client_map \ {p}
                  /\ \A rn \in RoomNames :
                        room_players'[rn] = SelectSeq(room_players[rn], LAMBDA q : q # p)
                  /\ UNCHANGED <<rooms, pipe_in, pipe_out, engine, fanout>>
       ]_vars
    /\ \A p \in Active : (client[p].pc = "finally") ~> ~Registered(p)

-----------------------------------------------------------------------------
(* C21 *)

\* an exit command of a seated player is handled in this step
ExitBySeated == IsCommand /\ Seated(Caller) /\ Caller \in DOMAIN hands /\ Verb = "exit"

\* the 0-based seat of the player who exits
ExitSeat == IndexOf(players, Caller) - 1

\* what an exit does apart from the turn pointer
ExitRemoves ==
    /\ players' = RemoveAt(players, ExitSeat + 1)
    /\ DOMAIN hands' = (DOMAIN hands) \ {Caller}
    /\ \A a \in DOMAIN hands' : hands'[a] = hands[a]
    /\ out' = <<Broadcast(<<"left", Caller>>)>>
    /\ UNCHANGED <<deck, discard, direction, active_color>>

\* C21 as stated: an exit of a seated player removes the player and the
\* hand, broadcasts the departure, leaves deck, discard pile, direction and
\* active_color alone, and decreases the turn pointer (never below 0) if the
\* seat removed was at or before the turn pointer.
C21_Original ==
    [][ ExitBySeated
        => /\ ExitRemoves
           /\ turn_index' >= 0
           /\ (ExitSeat <= turn_index /\ turn_index > 0) => turn_index' < turn_index
      ]_vars

\* C21 amended: the same, but the turn pointer is decreased by one (never
\* below 0) if the seat removed was before the turn pointer or if the
\* pointer would otherwise fall off the end of the shortened seat list, and
\* is unchanged otherwise: when the player on turn leaves from a seat that
\* is not the last, the pointer stays and the next player in join order is
\* on turn.
C21_ExitRemovesPlayer ==
    [][ ExitBySeated
        => /\ ExitRemoves
           /\ turn_index' = IF ExitSeat < turn_index \/ turn_index >= Len(players')
                            THEN Max(0, turn_index - 1)
                            ELSE turn_index
      ]_vars

\* three players joined, p1 drew, and p2, on turn in the middle seat, has
\* left: the pointer stays at 1, now on p3
C21_Witness ==
    /\ msg.type = "command" /\ msg.parts = <<"exit">> /\ msg.addr = "p2"
    /\ players = <<"p1", "p3">> /\ turn_index = 1
    /\ DOMAIN hands = {"p1", "p3"}
    /\ Len(hands["p1"]) = HandSize + 1 /\ Len(hands["p3"]) = HandSize
    /\ Len(discard) = 1
    /\ Len(deck) = Len(NewCards) - 3 * HandSize - 2
    /\ out = <<Broadcast(<<"left", "p2">>)>>

-----------------------------------------------------------------------------
(* C22 *)

\* a Reverse is played successfully in a room of more than 2 players
ReverseAmongMany ==
    /\ SuccessfulPlay
    /\ SplitVal(Played) = <<"Reverse">>
    /\ Len(players) > 2

\* C22: a successful Reverse play with more than 2 seated players negates
\* direction and then sets turn_index to (i + new direction) mod n, which is
\* the seat before the caller's in the old direction; direction is always
\* +1 or -1; and two consecutive successful Reverse plays with more than 2
\* players restore the direction: each of them negates it and no step other
\* than a Reverse play changes it.
C22_ReverseFlips ==
    /\ [](direction \in {1, -1})
    /\ [][ /\ ReverseAmongMany
              => /\ direction' = -1 * direction
                 /\ turn_index' = (turn_index + direction') % Len(players)
                 /\ turn_index' = SeatAfter(-1)
           /\ ~(SuccessfulPlay /\ SplitVal(Played) = <<"Reverse">>)
                 => direction' = direction
         ]_vars

\* in a room of three, p1 played a Reverse, the turn went back to p3, p3
\* played a Reverse as well: the direction is +1 again and p1 is on turn
C22_Witness ==
    /\ msg.type = "command" /\ lower(msg.parts[1]) = "play" /\ msg.addr = "p3"
    /\ players = <<"p1", "p2", "p3">>
    /\ Len(discard) = 3
    /\ SplitVal(discard[2]) = <<"Reverse">> /\ SplitVal(discard[3]) = <<"Reverse">>
    /\ out # <<>> /\ out[1].text = <<"played", "p3", discard[3]>>
    /\ direction = 1 /\ turn_index = 0

-----------------------------------------------------------------------------
(* card_matches on its own: a room whose only player holds one card, with    *)
(* any top card (or none) and any active_color, in which that player plays   *)
(* the card.  The play is refused with "cannot play" exactly when            *)
(* card_matches (line 213) returns False.                                    *)

\* the names of the cards of a deck
Vocabulary == { NewCards[k] : k \in 1..Len(NewCards) }

MatchInit ==
    /\ deck = <<>>
    /\ \E top \in Vocabulary \cup {NoCard} :
          discard = IF top = NoCard THEN <<>> ELSE <<top>>
    /\ players = <<"p1">>
    /\ \E card \in Vocabulary : hands = [a \in {"p1"} |-> <<card>>]
    /\ turn_index = 0
    /\ direction = 1
    /\ active_color \in Colors \cup {"None"}
    /\ crashed = FALSE
    /\ out = <<>>
    /\ msg = [type |-> "none", addr |-> "none", parts |-> <<>>]
    /\ inbox = <<>>
    /\ free = 0
    /\ BrokerOff
    /\ RelayOff

\* the player plays the first card of the hand
MatchNext == command("p1", <<"play", "1">>)

MatchSpec == MatchInit /\ [][MatchNext]_vars

-----------------------------------------------------------------------------
(* C23 *)

IsWildCard(card) == card \in {Wild, WildDrawFour}

\* the last word of a coloured card's name
ColorOf(card) == card[Len(card)]

\* the words before it
ValueOf(card) == SubSeq(card, 1, Len(card) - 1)

\* the cases of the claim
MatchesAsStated(card, top, color) ==
    \/ top = NoCard
    \/ IsWildCard(card)
    \/ IsWildCard(top) /\ color # "None" /\ ColorOf(card) = color
    \/ IsWildCard(top) /\ color = "None"
    \/ ~IsWildCard(top) /\ (ColorOf(card) = ColorOf(top) \/ ValueOf(card) = ValueOf(top))

\* C23: for every card, top card and active_color of the 60-card deck
\* vocabulary, card_matches is true exactly when the top is absent, or the
\* card is a Wild or Wild Draw Four, or the top is a Wild or Wild Draw Four
\* and active_color is unset or is the card's colour, or the top is a
\* coloured card and the card shares its colour or its value; and a play is
\* refused as not matching exactly in the other cases.
C23_CardMatches ==
    [][ (IsCommand /\ Verb = "play" /\ Seated(Caller) /\ OnTurn(Caller) /\ PlayIndexValid)
        => /\ card_matches(PlaySelected, TopOf(discard), active_color)
                = MatchesAsStated(PlaySelected, TopOf(discard), active_color)
           /\ (OnlyErrorTo(Caller) /\ out'[1].text[2] = "cannot play")
                = ~MatchesAsStated(PlaySelected, TopOf(discard), active_color)
      ]_vars

\* on a Wild Draw Four with active colour Red, a 5 Blue was refused
C23_Witness ==
    /\ msg.type = "command" /\ msg.parts = <<"play", "1">>
    /\ discard = <<WildDrawFour>> /\ active_color = "Red"
    /\ hands = [a \in {"p1"} |-> << <<"5", "Blue">> >>]
    /\ Len(out) = 1 /\ out[1].text = <<"ERROR", "cannot play">>

-----------------------------------------------------------------------------
(* C24 *)

\* the pcs of an Assign between its cleanup and the end of its "with LOCK"
Evaluated == {"pick", "load", "store", "refresh"}

-----------------------------------------------------------------------------
(* C25 *)

\* the fan-out thread is inside "with self.lock" (line 383) and its next
\* step is the "with self.lock" of route_to_client (line 397)
FanoutWaitsForItself ==
    /\ lock = "fanout"
    /\ fanout.pc = "routing"
    /\ fanout.todo # <<>>

\* C25: the relay never deadlocks on its mutex: no thread that holds the
\* mutex waits for that same mutex before releasing it, so that a broadcast
\* to a non-empty roster completes and joins, routes and cleanups can take
\* the mutex afterwards.
C25_NoSelfDeadlock == ~FanoutWaitsForItself

-----------------------------------------------------------------------------
(* C26 *)

\* the handler of p calls create_game_room in this step
Creates(p) ==
    /\ client[p].pc \in {"auto_create", "create"}
    /\ client'[p].pc # client[p].pc

\* C26: for each room name at most one engine is ever created, and creating
\* a room never replaces the engine, pipe or roster of a room that exists,
\* under every interleaving of concurrent joins, named or auto.
C26_RoomCreatedOnce ==
    [][\A p \in Active :
          Creates(p)
             => /\ ~InSeq(rooms, client[p].room_name)
                /\ engine[client[p].room_name] = "none"
                /\ \A rn \in RoomNames \ {client[p].room_name} :
                      /\ room_players'[rn] = room_players[rn]
                      /\ engine'[rn] = engine[rn]
      ]_vars

-----------------------------------------------------------------------------
(* C27 *)

\* how often card c occurs in a list of cards
Occurrences(cards, c) == Cardinality({i \in 1..Len(cards) : cards[i] = c})

\* how often each card occurs in a new deck
InNewDeck == [c \in Vocabulary |-> Occurrences(NewCards, c)]

RECURSIVE HandCards(_)
HandCards(owners) ==
    IF owners = {} THEN <<>>
    ELSE LET a == CHOOSE x \in owners : TRUE
         IN  hands[a] \o HandCards(owners \ {a})

\* the cards of the deck, the discard pile and all hands, in one list
CardsInRoom == deck \o discard \o HandCards(DOMAIN hands)

\* cards is a sub-multiset of the new deck: each of its cards is a card of
\* the deck and occurs, up to any position, no more often than in the deck
SubDeck(cards) ==
    \A i \in 1..Len(cards) :
        /\ cards[i] \in Vocabulary
        /\ Cardinality({j \in 1..i : cards[j] = cards[i]}) <= InNewDeck[cards[i]]

NoCardCreated == SubDeck(CardsInRoom)

\* |deck| + sum of hand sizes + |discard| = 60
SixtyCards == Len(CardsInRoom) = Len(NewCards)

\* a sub-multiset of the deck that has 60 cards is the whole deck
ExactlyTheDeck == NoCardCreated /\ SixtyCards

HandsOfSeated == DOMAIN hands = {players[i] : i \in 1..Len(players)}

\* C27: cards are neither created nor duplicated: deck, hands and discard
\* pile together always are a sub-multiset of the 60-card deck; the players
\* who have a hand are the seated players; and the cards in the room are
\* exactly the 60 cards at the start and after every step that found them
\* so and is not the exit of a seated player.
C27_CardsConserved ==
    /\ ExactlyTheDeck
    /\ [](NoCardCreated /\ HandsOfSeated)
    /\ [][(SixtyCards /\ ~ExitBySeated) => SixtyCards']_vars

\* nobody has left a room of three in which two cards were played and a
\* penalty was drawn: all 60 cards are in the deck, the hands and the pile
C27_Witness ==
    /\ ExactlyTheDeck
    /\ Len(players) = 3
    /\ Len(discard) = 3
    /\ Len(deck) < Len(NewCards) - 3 * HandSize - 1
    /\ \E a \in DOMAIN hands : Len(hands[a]) > HandSize

-----------------------------------------------------------------------------
(* C28 *)

\* the connection of p has ended and its handler is in, or past, its cleanup
Disconnected(p) == client[p].pc \in {"finally", "gone"}

\* some room engine has p in its seat list
SeatedSomewhere(p) == \E rn \in RoomNames : InSeq(seated[rn], p)

\* C28: when the connection of a seated player has ended, with or without
\* an exit line, the room engine eventually has that player in its seat
\* list no more.
C28_EngineLearnsOfDisconnect ==
    \A p \in Active : Disconnected(p) ~> ~SeatedSomewhere(p)

-----------------------------------------------------------------------------
(* Exits on their own: a room of 1 to MaxSeats players who joined one after  *)
(* the other, with the turn at any seat and in either direction, in which    *)
(* somebody sends exit.                                                      *)

MaxSeats == 5

\* the connections of this room
SeatNames == <<"p1", "p2", "p3", "p4", "p5", "p6">>

\* the locals of a room process that has handled nothing yet
FreshRoom(sh) ==
    [deck |-> shuffle_deck(NewCards, sh), discard |-> <<>>, players |-> <<>>,
     hands |-> <<>>, turn_index |-> 0, direction |-> 1, active_color |-> "None",
     crashed |-> FALSE, out |-> <<>>]

\* the room after the new_client messages of addrs, in this order
RECURSIVE Joined(_, _)
Joined(r, addrs) ==
    IF addrs = <<>> THEN r
    ELSE Joined(on_new_client(r, Head(addrs)), Tail(addrs))

ExitInit ==
    /\ \E n \in 1..MaxSeats, sh \in Shuffles :
          LET r == Joined(FreshRoom(sh), SubSeq(SeatNames, 1, n)) IN
          /\ deck = r.deck
          /\ discard = r.discard
          /\ players = r.players
          /\ hands = r.hands
          /\ turn_index \in 0..(n - 1)
    /\ direction \in {1, -1}
    /\ active_color = "None"
    /\ crashed = FALSE
    /\ out = <<>>
    /\ msg = [type |-> "none", addr |-> "none", parts |-> <<>>]
    /\ inbox = <<>>
    /\ free = 0
    /\ BrokerOff
    /\ RelayOff

ExitNext == \E i \in 1..Len(SeatNames) : command(SeatNames[i], <<"exit">>)

ExitSpec == ExitInit /\ [][ExitNext]_vars

-----------------------------------------------------------------------------
(* C29 *)

\* C29: when a seated player other than the one on turn exits, the player
\* on turn stays the same: the player at turn_index before the exit is the
\* player at turn_index after it, whatever the number of seats, the turn
\* position and the direction.
C29_ExitKeepsPlayerOnTurn ==
    [][ (ExitBySeated /\ ~OnTurn(Caller))
        => /\ turn_index' < Len(players')
           /\ players'[turn_index' + 1] = players[turn_index + 1]
      ]_vars

\* in a room of five running counterclockwise with p4 on turn, p2 has left
\* from a seat before the pointer: the pointer went down to 2 and p4 is
\* still on turn
C29_Witness ==
    /\ msg.type = "command" /\ msg.parts = <<"exit">> /\ msg.addr = "p2"
    /\ players = <<"p1", "p3", "p4", "p5">> /\ turn_index = 2
    /\ direction = -1
    /\ out = <<Broadcast(<<"left", "p2">>)>>

=============================================================================
